---------------------------- MODULE Spec2Model ----------------------------
(***************************************************************************)
(* DealHawk: the deal-scoring and pricing-estimation engine.               *)
(*                                                                         *)
(* Conventions of the model                                                *)
(*   - money is an integer number of cents; a Python float product such as *)
(*     msrp * 0.93 is kept as an exact fraction (numerator over 100) until *)
(*     the code rounds it, and round(x, 2) / round(x) are round-half-even  *)
(*     on that exact fraction (RoundHalfEven);                             *)
(*   - a Python str is a sequence of one-character strings, so that the    *)
(*     substring tests and the f"{make} {model}" concatenation of the code *)
(*     are computed and not assumed;                                       *)
(*   - a dict literal is the sequence of its <<key, value>> items in       *)
(*     source order (the order dict.items() iterates in);                  *)
(*   - None is the record NoneVal, NoneStr where a str may stand and       *)
(*     NoneInt where an int may stand;                                     *)
(*   - the Section 179 calculator takes whole dollars and whole percents   *)
(*     and returns cents.                                                  *)
(***************************************************************************)
EXTENDS Integers, Sequences, FiniteSets

VARIABLES
    cache,      \* rows of the invoice_price_cache table
    call,       \* the call being served: its operation and arguments
    result,     \* what the call returned, or NoResult while it is pending
    users,      \* rows of the users table, by stripe_customer_id
    processed_webhook_events,   \* event ids of the processed_webhook_events table
    deliveries, \* the webhook deliveries: their event, position and response
    dealerships,    \* the row of the dealerships table
    requests,   \* the dealer API requests: their key, position and response
    today,      \* date.today(), a day number
    _circuit_failure_count,     \* global of marketcheck_service
    _circuit_opened_at,         \* global of marketcheck_service, NoneInt for None
    now,        \* time.time(), in seconds
    fetches,    \* the live fetches: their kind, position and result
    outcomes    \* the outcomes recorded by the live fetches, oldest first

\* the circuit breaker of the MarketCheck client and its callers
circuit_vars == <<_circuit_failure_count, _circuit_opened_at, now, fetches, outcomes>>

\* the tables and requests of the webhook endpoint and of the dealer API, and
\* the circuit breaker
server_vars == <<users, processed_webhook_events, deliveries, dealerships, requests, today, circuit_vars>>

vars == <<cache, call, result, server_vars>>

NoneVal == [none |-> TRUE]
\* None where a str may stand (a trim): no sequence of characters equals it
NoneStr == <<"None">>
NoResult == [pending |-> TRUE]
\* None where an int may stand (gvwr_override, gvwr, _circuit_opened_at)
NoneInt == -1

\* the circuit closed, no failure counted, no fetch made
CircuitIdle ==
    /\ _circuit_failure_count = 0 /\ _circuit_opened_at = NoneInt
    /\ now = 0 /\ fetches = <<>> /\ outcomes = <<>>

\* no subscription, no dealership, nothing in flight
ServerIdle ==
    /\ users = <<>> /\ processed_webhook_events = {} /\ deliveries = <<>>
    /\ dealerships = <<>> /\ requests = <<>> /\ today = 0
    /\ CircuitIdle

-----------------------------------------------------------------------------
(* Strings of the reference tables and of the requests.                    *)

sRam == <<"R", "a", "m">>
sFord == <<"F", "o", "r", "d">>
sToyota == <<"T", "o", "y", "o", "t", "a">>
sChevrolet == <<"C", "h", "e", "v", "r", "o", "l", "e", "t">>
sGMC == <<"G", "M", "C">>
sNissan == <<"N", "i", "s", "s", "a", "n">>
sDodge == <<"D", "o", "d", "g", "e">>
sJeep == <<"J", "e", "e", "p">>
sChrysler == <<"C", "h", "r", "y", "s", "l", "e", "r">>
sLincoln == <<"L", "i", "n", "c", "o", "l", "n">>
sBuick == <<"B", "u", "i", "c", "k">>
sCadillac == <<"C", "a", "d", "i", "l", "l", "a", "c">>
sHonda == <<"H", "o", "n", "d", "a">>
sHyundai == <<"H", "y", "u", "n", "d", "a", "i">>
sKia == <<"K", "i", "a">>
sNoMake == <<"N", "o", "M", "a", "k", "e">>
sNoModel == <<"N", "o", "M", "o", "d", "e", "l">>
sSp == <<" ">>
s1500 == <<"1", "5", "0", "0">>
s2500 == <<"2", "5", "0", "0">>
s3500 == <<"3", "5", "0", "0">>
sHD == <<"H", "D">>
sF150 == <<"F", "-", "1", "5", "0">>
sF250 == <<"F", "-", "2", "5", "0">>
sF350 == <<"F", "-", "3", "5", "0">>
sF450 == <<"F", "-", "4", "5", "0">>
sRam1500 == sRam \o sSp \o s1500
sRam2500 == sRam \o sSp \o s2500
sRam3500 == sRam \o sSp \o s3500
sRamRam2500 == sRam \o sSp \o sRam2500
sSierra == <<"S", "i", "e", "r", "r", "a">>
sSilverado == <<"S", "i", "l", "v", "e", "r", "a", "d", "o">>
sSierra1500 == sSierra \o sSp \o s1500
sSierra2500HD == sSierra \o sSp \o s2500 \o sHD
sSierra3500HD == sSierra \o sSp \o s3500 \o sHD
sSilverado1500 == sSilverado \o sSp \o s1500
sSilverado2500HD == sSilverado \o sSp \o s2500 \o sHD
sSilverado3500HD == sSilverado \o sSp \o s3500 \o sHD
sTundra == <<"T", "u", "n", "d", "r", "a">>
sTacoma == <<"T", "a", "c", "o", "m", "a">>
sTitan == <<"T", "i", "t", "a", "n">>
sFrontier == <<"F", "r", "o", "n", "t", "i", "e", "r">>

-----------------------------------------------------------------------------
(* Python built-ins used by the code.                                      *)

\* `needle in hay` on two str values
IsSubstring(needle, hay) ==
    \E i \in 0..(Len(hay) - Len(needle)) :
        \A j \in 1..Len(needle) : hay[i + j] = needle[j]

\* key in dict
DictHas(items, key) == \E i \in 1..Len(items) : items[i][1] = key

\* dict[key], for a key of the dict
DictGet(items, key) == items[CHOOSE i \in 1..Len(items) : items[i][1] = key][2]

\* round(n / d) for d > 0: to the nearest integer, ties to the even one
RoundHalfEven(n, d) ==
    LET q == n \div d
        r == n % d
    IN  IF 2 * r < d THEN q
        ELSE IF 2 * r > d THEN q + 1
        ELSE IF q % 2 = 0 THEN q ELSE q + 1

Max2(a, b) == IF a >= b THEN a ELSE b
Min2(a, b) == IF a <= b THEN a ELSE b

-----------------------------------------------------------------------------
(* config/holdback_rates.py                                                *)

\* rate in percent
HOLDBACK_RATES ==
    << <<sRam, [rate |-> 3, basis |-> "msrp"]>>,
       <<sDodge, [rate |-> 3, basis |-> "msrp"]>>,
       <<sJeep, [rate |-> 3, basis |-> "msrp"]>>,
       <<sChrysler, [rate |-> 3, basis |-> "msrp"]>>,
       <<sFord, [rate |-> 3, basis |-> "msrp"]>>,
       <<sLincoln, [rate |-> 2, basis |-> "msrp"]>>,
       <<sChevrolet, [rate |-> 3, basis |-> "invoice"]>>,
       <<sGMC, [rate |-> 3, basis |-> "invoice"]>>,
       <<sBuick, [rate |-> 3, basis |-> "invoice"]>>,
       <<sCadillac, [rate |-> 3, basis |-> "invoice"]>>,
       <<sToyota, [rate |-> 2, basis |-> "msrp"]>>,
       <<sNissan, [rate |-> 3, basis |-> "invoice"]>>,
       <<sHonda, [rate |-> 2, basis |-> "msrp"]>>,
       <<sHyundai, [rate |-> 2, basis |-> "invoice"]>>,
       <<sKia, [rate |-> 2, basis |-> "invoice"]>> >>

\* mutant: the basis of the make is not read, the rate applies to msrp
get_holdback_on_msrp(make, msrp, invoice) ==
    LET info == IF DictHas(HOLDBACK_RATES, make) THEN DictGet(HOLDBACK_RATES, make)
                ELSE [rate |-> 2, basis |-> "msrp"]
    IN  RoundHalfEven(msrp * info.rate, 100)

\* cents of holdback for a make; msrp and invoice in cents
get_holdback(make, msrp, invoice) ==
    LET info == IF DictHas(HOLDBACK_RATES, make) THEN DictGet(HOLDBACK_RATES, make)
                ELSE [rate |-> 2, basis |-> "msrp"]
        basis_value == IF info.basis = "msrp" THEN msrp ELSE invoice
    IN  RoundHalfEven(basis_value * info.rate, 100)

-----------------------------------------------------------------------------
(* config/invoice_ranges.py                                                *)

\* ratios in percent
INVOICE_RATIOS ==
    << <<sFord \o sSp \o sF150, [base |-> 93, mid |-> 91, high |-> 89]>>,
       <<sFord \o sSp \o sF250, [base |-> 93, mid |-> 91, high |-> 89]>>,
       <<sFord \o sSp \o sF350, [base |-> 93, mid |-> 91, high |-> 88]>>,
       <<sFord \o sSp \o sF450, [base |-> 92, mid |-> 90, high |-> 88]>>,
       <<sRam1500, [base |-> 92, mid |-> 90, high |-> 88]>>,
       <<sRam2500, [base |-> 92, mid |-> 90, high |-> 88]>>,
       <<sRam3500, [base |-> 92, mid |-> 90, high |-> 87]>>,
       <<sChevrolet \o sSp \o sSilverado1500, [base |-> 93, mid |-> 91, high |-> 89]>>,
       <<sChevrolet \o sSp \o sSilverado2500HD, [base |-> 92, mid |-> 90, high |-> 88]>>,
       <<sChevrolet \o sSp \o sSilverado3500HD, [base |-> 92, mid |-> 90, high |-> 87]>>,
       <<sGMC \o sSp \o sSierra1500, [base |-> 92, mid |-> 90, high |-> 88]>>,
       <<sGMC \o sSp \o sSierra2500HD, [base |-> 92, mid |-> 90, high |-> 88]>>,
       <<sGMC \o sSp \o sSierra3500HD, [base |-> 92, mid |-> 90, high |-> 87]>>,
       <<sToyota \o sSp \o sTundra, [base |-> 94, mid |-> 92, high |-> 91]>>,
       <<sToyota \o sSp \o sTacoma, [base |-> 95, mid |-> 93, high |-> 92]>>,
       <<sNissan \o sSp \o sTitan, [base |-> 92, mid |-> 90, high |-> 88]>>,
       <<sNissan \o sSp \o sFrontier, [base |-> 94, mid |-> 92, high |-> 90]>> >>

DEFAULT_INVOICE_RATIO == 92

\* thresholds in cents
TRIM_THRESHOLDS ==
    << <<sF150, [base_max |-> 4200000, high_min |-> 6500000]>>,
       <<sF250, [base_max |-> 5000000, high_min |-> 7500000]>>,
       <<sF350, [base_max |-> 5200000, high_min |-> 8000000]>>,
       <<sRam1500, [base_max |-> 4200000, high_min |-> 6000000]>>,
       <<sRam2500, [base_max |-> 4800000, high_min |-> 7200000]>>,
       <<sRam3500, [base_max |-> 5000000, high_min |-> 7800000]>>,
       <<sSilverado1500, [base_max |-> 4200000, high_min |-> 6200000]>>,
       <<sSilverado2500HD, [base_max |-> 4800000, high_min |-> 7200000]>>,
       <<sSierra1500, [base_max |-> 4400000, high_min |-> 6500000]>>,
       <<sSierra2500HD, [base_max |-> 5000000, high_min |-> 7500000]>> >>

\* mutant: an msrp of exactly base_max is no longer a base trim
estimate_invoice_below_base_max(make, model, msrp) ==
    LET make_model == make \o sSp \o model
        ratios == IF DictHas(INVOICE_RATIOS, make_model)
                  THEN DictGet(INVOICE_RATIOS, make_model)
                  ELSE IF DictHas(INVOICE_RATIOS, model)
                  THEN DictGet(INVOICE_RATIOS, model)
                  ELSE NoneVal
        thresholds == IF DictHas(TRIM_THRESHOLDS, model)
                      THEN DictGet(TRIM_THRESHOLDS, model)
                      ELSE [base_max |-> 4500000, high_min |-> 7000000]
        ratio == IF ratios # NoneVal
                 THEN IF msrp < thresholds.base_max THEN ratios.base
                      ELSE IF msrp >= thresholds.high_min THEN ratios.high
                      ELSE ratios.mid
                 ELSE DEFAULT_INVOICE_RATIO
    IN  RoundHalfEven(msrp * ratio, 100)

\* cents of estimated invoice; msrp in cents
estimate_invoice(make, model, msrp) ==
    LET make_model == make \o sSp \o model
        ratios == IF DictHas(INVOICE_RATIOS, make_model)
                  THEN DictGet(INVOICE_RATIOS, make_model)
                  ELSE IF DictHas(INVOICE_RATIOS, model)
                  THEN DictGet(INVOICE_RATIOS, model)
                  ELSE NoneVal
        thresholds == IF DictHas(TRIM_THRESHOLDS, model)
                      THEN DictGet(TRIM_THRESHOLDS, model)
                      ELSE [base_max |-> 4500000, high_min |-> 7000000]
        ratio == IF ratios # NoneVal
                 THEN IF msrp <= thresholds.base_max THEN ratios.base
                      ELSE IF msrp >= thresholds.high_min THEN ratios.high
                      ELSE ratios.mid
                 ELSE DEFAULT_INVOICE_RATIO
    IN  RoundHalfEven(msrp * ratio, 100)

-----------------------------------------------------------------------------
(* database/models.py, seed_data.py: the invoice_price_cache table         *)

sXL == <<"X", "L">>
sXLT == <<"X", "L", "T">>
sLariat == <<"L", "a", "r", "i", "a", "t">>
sKingRanch == <<"K", "i", "n", "g", " ", "R", "a", "n", "c", "h">>
sPlatinum == <<"P", "l", "a", "t", "i", "n", "u", "m">>
sTradesman == <<"T", "r", "a", "d", "e", "s", "m", "a", "n">>
sBigHorn == <<"B", "i", "g", " ", "H", "o", "r", "n">>
sLaramie == <<"L", "a", "r", "a", "m", "i", "e">>
sWarlock == <<"W", "a", "r", "l", "o", "c", "k">>
sWT == <<"W", "T">>
sLT == <<"L", "T">>
sLTZ == <<"L", "T", "Z">>
sElevation == <<"E", "l", "e", "v", "a", "t", "i", "o", "n">>
sSLE == <<"S", "L", "E">>
sSLT == <<"S", "L", "T">>
sAT4 == <<"A", "T", "4">>
sPro == <<"P", "r", "o">>

\* the columns of InvoicePriceCache that get_pricing reads or filters on;
\* a NULL holdback_amount is -1
InvoicePriceCache(year, make, model, trim, msrp, invoice_price, holdback_amount) ==
    [year |-> year, make |-> make, model |-> model, trim |-> trim, msrp |-> msrp,
     invoice_price |-> invoice_price, holdback_amount |-> holdback_amount]

\* rows of seed_invoice_prices (year, make, model, trim, msrp, invoice_price), cents
invoice_data ==
    << <<2026, sFord, sF150, sXL, 3835500, 3567000>>,
       <<2026, sFord, sF150, sXLT, 4453000, 4052000>>,
       <<2026, sFord, sF150, sLariat, 5387000, 4897000>>,
       <<2026, sFord, sF150, sKingRanch, 6454000, 5744000>>,
       <<2026, sFord, sF150, sPlatinum, 6889500, 6132000>>,
       <<2025, sFord, sF150, sXLT, 4350000, 3958500>>,
       <<2026, sFord, sF250, sXL, 4496500, 4182000>>,
       <<2026, sFord, sF250, sXLT, 5085000, 4627000>>,
       <<2026, sFord, sF250, sLariat, 6209000, 5650000>>,
       <<2026, sRam, sRam1500, sTradesman, 4063000, 3738000>>,
       <<2026, sRam, sRam1500, sBigHorn, 4733500, 4260000>>,
       <<2026, sRam, sRam1500, sLaramie, 5504500, 4854000>>,
       <<2026, sRam, sRam1500, sWarlock, 4950000, 4455000>>,
       <<2025, sRam, sRam1500, sBigHorn, 4650000, 4185000>>,
       <<2026, sRam, sRam2500, sTradesman, 4545000, 4182000>>,
       <<2026, sRam, sRam2500, sBigHorn, 5336500, 4803000>>,
       <<2026, sRam, sRam2500, sLaramie, 6257500, 5503000>>,
       <<2025, sRam, sRam2500, sLaramie, 6180000, 5438000>>,
       <<2026, sRam, sRam3500, sTradesman, 4655500, 4283000>>,
       <<2026, sRam, sRam3500, sLaramie, 6463000, 5684000>>,
       <<2025, sRam, sRam3500, sTradesman, 4570000, 4204000>>,
       <<2026, sChevrolet, sSilverado1500, sWT, 3960000, 3683000>>,
       <<2026, sChevrolet, sSilverado1500, sLT, 4840000, 4404000>>,
       <<2026, sChevrolet, sSilverado1500, sLTZ, 5620000, 5058000>>,
       <<2026, sChevrolet, sSilverado2500HD, sWT, 4550000, 4186000>>,
       <<2026, sChevrolet, sSilverado2500HD, sLTZ, 6430000, 5787000>>,
       <<2025, sGMC, sSierra1500, sElevation, 4820000, 4338000>>,
       <<2026, sGMC, sSierra1500, sSLE, 4950000, 4455000>>,
       <<2026, sGMC, sSierra1500, sSLT, 5780000, 5095000>>,
       <<2026, sGMC, sSierra1500, sAT4, 6050000, 5324000>>,
       <<2026, sGMC, sSierra2500HD, sPro, 4680000, 4306000>>,
       <<2026, sGMC, sSierra2500HD, sSLT, 6520000, 5868000>> >>

\* the table after seed_invoice_prices ran on db: a row is added unless one
\* with its year, make, model and trim is there already
RECURSIVE SeedFrom(_, _)
SeedFrom(db, i) ==
    IF i > Len(invoice_data) THEN db
    ELSE LET data == invoice_data[i]
             holdback == get_holdback(data[2], data[5], data[6])
             existing == \E r \in db : /\ r.year = data[1] /\ r.make = data[2]
                                       /\ r.model = data[3] /\ r.trim = data[4]
         IN  IF existing THEN SeedFrom(db, i + 1)
             ELSE SeedFrom(db \cup {InvoicePriceCache(data[1], data[2], data[3],
                                      data[4], data[5], data[6], holdback)}, i + 1)

seed_invoice_prices(db) == SeedFrom(db, 1)

-----------------------------------------------------------------------------
(* services/pricing_service.py                                             *)

\* mutant: the query does not filter on the trim
CacheQuery_any_trim(db, year, make, model, trim) ==
    {r \in db : r.year = year /\ r.make = make /\ r.model = model}

\* the rows the query of get_pricing matches in the table db: year, make and
\* model are filtered on, and trim when a non-empty trim is given
CacheQuery(db, year, make, model, trim) ==
    {r \in db : /\ r.year = year /\ r.make = make /\ r.model = model
                /\ (trim # NoneStr /\ trim # <<>>) => r.trim = trim}

\* what `cached` can be: NoneVal without a session or without a matching row,
\* else any matching row (the query has no ORDER BY, first() may return any)
QueryFirst(with_db, db, year, make, model, trim) ==
    IF with_db /\ CacheQuery(db, year, make, model, trim) # {}
    THEN CacheQuery(db, year, make, model, trim)
    ELSE {NoneVal}

\* margin / msrp * 100 rounded to one decimal, in tenths of a percent
\* (the leading digits come by long division, so no product leaves 32 bits;
\* they sum to a multiple of 10, so the tie rule sees the last digit's parity)
MarginPct(margin, msrp) ==
    IF msrp > 0
    THEN LET q  == margin \div msrp
             r0 == margin % msrp
             t1 == (r0 * 10) \div msrp
             r1 == (r0 * 10) % msrp
             t2 == (r1 * 10) \div msrp
             r2 == (r1 * 10) % msrp
         IN  q * 1000 + t1 * 100 + t2 * 10 + RoundHalfEven(r2 * 10, msrp)
    ELSE 0

\* mutant: dealer cash is not subtracted from the true dealer cost
get_pricing_without_cash(year, make, model, msrp, trim, dealer_cash, cached) ==
    LET invoice == IF cached # NoneVal THEN cached.invoice_price
                   ELSE estimate_invoice(make, model, msrp)
        holdback_amount ==
            IF cached # NoneVal /\ cached.holdback_amount # -1
            THEN cached.holdback_amount
            ELSE get_holdback(make, msrp, invoice)
        source == IF cached # NoneVal THEN "cached" ELSE "estimated"
        true_cost == invoice - holdback_amount
        margin == msrp - true_cost
    IN  [msrp |-> msrp,
         invoice_price |-> invoice,
         holdback |-> holdback_amount,
         dealer_cash |-> dealer_cash,
         true_dealer_cost |-> true_cost,
         margin_from_msrp |-> margin,
         margin_pct |-> MarginPct(margin, msrp),
         source |-> source]

\* cached is the row query.first() returned, NoneVal when there is none
get_pricing(year, make, model, msrp, trim, dealer_cash, cached) ==
    LET invoice == IF cached # NoneVal THEN cached.invoice_price
                   ELSE estimate_invoice(make, model, msrp)
        holdback_amount ==
            IF cached # NoneVal /\ cached.holdback_amount # -1
            THEN cached.holdback_amount
            ELSE get_holdback(make, msrp, invoice)
        source == IF cached # NoneVal THEN "cached" ELSE "estimated"
        true_cost == invoice - holdback_amount - dealer_cash
        margin == msrp - true_cost
    IN  [msrp |-> msrp,
         invoice_price |-> invoice,
         holdback |-> holdback_amount,
         dealer_cash |-> dealer_cash,
         true_dealer_cost |-> true_cost,
         margin_from_msrp |-> margin,
         margin_pct |-> MarginPct(margin, msrp),
         source |-> source]

-----------------------------------------------------------------------------
(* services/deal_scorer.py                                                 *)

INDUSTRY_AVG_DAYS_SUPPLY == 76

MODEL_DAYS_SUPPLY ==
    << <<sRam3500, 342>>,
       <<sRam2500, 318>>,
       <<sRam1500, 120>>,
       <<sF150, 100>>,
       <<sF250, 90>>,
       <<sF350, 85>>,
       <<sF450, 60>>,
       <<sSierra1500, 85>>,
       <<sSierra2500HD, 80>>,
       <<sSilverado1500, 85>>,
       <<sSilverado2500HD, 80>>,
       <<sTundra, 33>>,
       <<sTacoma, 30>> >>


\* cents per day
CARRYING_COST_PER_DAY == 790

\* mutant: a capture of 60% is scored like one of 40%
_score_price_without_75(asking, true_cost, msrp) ==
    IF true_cost <= 0 \/ msrp <= 0 THEN 50
    ELSE LET margin == msrp - true_cost
             buyer_savings == msrp - asking
         IN  IF margin <= 0 THEN 50
             ELSE IF asking <= true_cost THEN 100
             ELSE IF buyer_savings * 100 >= 80 * margin THEN 90
             ELSE IF buyer_savings * 100 >= 40 * margin THEN 55
             ELSE IF buyer_savings * 100 >= 20 * margin THEN 35
             ELSE IF buyer_savings * 100 >= 0 THEN 15
             ELSE 5

\* the price sub-score; capture_pct >= k is buyer_savings * 100 >= k * margin
_score_price(asking, true_cost, msrp) ==
    IF true_cost <= 0 \/ msrp <= 0 THEN 50
    ELSE LET margin == msrp - true_cost
             buyer_savings == msrp - asking
         IN  IF margin <= 0 THEN 50
             ELSE IF asking <= true_cost THEN 100
             ELSE IF buyer_savings * 100 >= 80 * margin THEN 90
             ELSE IF buyer_savings * 100 >= 60 * margin THEN 75
             ELSE IF buyer_savings * 100 >= 40 * margin THEN 55
             ELSE IF buyer_savings * 100 >= 20 * margin THEN 35
             ELSE IF buyer_savings * 100 >= 0 THEN 15
             ELSE 5

\* mutant: the raw day count is returned for the oldest inventory
_score_days_on_lot_raw(days) ==
    IF days >= 270 THEN days
    ELSE IF days >= 180 THEN 80
    ELSE IF days >= 120 THEN 65
    ELSE IF days >= 90 THEN 50
    ELSE IF days >= 60 THEN 35
    ELSE IF days >= 30 THEN 20
    ELSE 10

\* mutant: the 120-day tier is worth less than the 90-day tier
_score_days_on_lot_dip(days) ==
    IF days >= 270 THEN 100
    ELSE IF days >= 180 THEN 80
    ELSE IF days >= 120 THEN 45
    ELSE IF days >= 90 THEN 50
    ELSE IF days >= 60 THEN 35
    ELSE IF days >= 30 THEN 20
    ELSE 10

_score_days_on_lot(days) ==
    IF days >= 270 THEN 100
    ELSE IF days >= 180 THEN 80
    ELSE IF days >= 120 THEN 65
    ELSE IF days >= 90 THEN 50
    ELSE IF days >= 60 THEN 35
    ELSE IF days >= 30 THEN 20
    ELSE 10

\* mutant: the lowest tier starts at 0% instead of 1%
_score_incentives_zero_tier(rebates, msrp) ==
    IF msrp <= 0 THEN 0
    ELSE IF rebates * 100 >= 15 * msrp THEN 100
    ELSE IF rebates * 100 >= 10 * msrp THEN 85
    ELSE IF rebates * 100 >= 7 * msrp THEN 70
    ELSE IF rebates * 100 >= 5 * msrp THEN 55
    ELSE IF rebates * 100 >= 3 * msrp THEN 40
    ELSE IF rebates * 100 >= 0 THEN 25
    ELSE 10

\* pct >= k is rebates * 100 >= k * msrp
_score_incentives(rebates, msrp) ==
    IF msrp <= 0 THEN 0
    ELSE IF rebates * 100 >= 15 * msrp THEN 100
    ELSE IF rebates * 100 >= 10 * msrp THEN 85
    ELSE IF rebates * 100 >= 7 * msrp THEN 70
    ELSE IF rebates * 100 >= 5 * msrp THEN 55
    ELSE IF rebates * 100 >= 3 * msrp THEN 40
    ELSE IF rebates * 100 >= 1 * msrp THEN 25
    ELSE 10

\* mutant: of the keys matching partially the last one is taken
LookupDaysSupply_last_match(model) ==
    LET partial == {i \in 1..Len(MODEL_DAYS_SUPPLY) :
                       \/ IsSubstring(MODEL_DAYS_SUPPLY[i][1], model)
                       \/ IsSubstring(model, MODEL_DAYS_SUPPLY[i][1])}
    IN  IF DictHas(MODEL_DAYS_SUPPLY, model) THEN DictGet(MODEL_DAYS_SUPPLY, model)
        ELSE IF partial # {}
             THEN MODEL_DAYS_SUPPLY[CHOOSE i \in partial : \A j \in partial : i >= j][2]
             ELSE -1

\* the days supply _score_market_supply finds for a model: the exact key,
\* else the first key that contains the model or is in it; -1 stands for None
LookupDaysSupply(model) ==
    LET partial == {i \in 1..Len(MODEL_DAYS_SUPPLY) :
                       \/ IsSubstring(MODEL_DAYS_SUPPLY[i][1], model)
                       \/ IsSubstring(model, MODEL_DAYS_SUPPLY[i][1])}
    IN  IF DictHas(MODEL_DAYS_SUPPLY, model) THEN DictGet(MODEL_DAYS_SUPPLY, model)
        ELSE IF partial # {}
             THEN MODEL_DAYS_SUPPLY[CHOOSE i \in partial : \A j \in partial : i <= j][2]
             ELSE -1

\* ratio >= a/b is days_supply * b >= a * INDUSTRY_AVG_DAYS_SUPPLY
_score_market_supply(make, model) ==
    LET days_supply == LookupDaysSupply(model)
    IN  IF days_supply = -1 THEN 40
        ELSE IF days_supply >= 4 * INDUSTRY_AVG_DAYS_SUPPLY THEN 100
        ELSE IF days_supply * 2 >= 5 * INDUSTRY_AVG_DAYS_SUPPLY THEN 85
        ELSE IF days_supply * 2 >= 3 * INDUSTRY_AVG_DAYS_SUPPLY THEN 65
        ELSE IF days_supply >= INDUSTRY_AVG_DAYS_SUPPLY THEN 45
        ELSE IF days_supply * 10 >= 7 * INDUSTRY_AVG_DAYS_SUPPLY THEN 25
        ELSE 10

\* mutant: the month-end bonus starts after day 26, not on it
_score_timing_after_26(d) ==
    LET base == 30
        month_end == IF d.day > 26 THEN 30 ELSE IF d.day >= 20 THEN 15 ELSE 0
        quarter_end == IF d.month \in {3, 6, 9, 12} THEN 25 ELSE 0
        year_end == IF d.month = 12 THEN 15 ELSE 0
    IN  Min2(100, base + month_end + quarter_end + year_end)

\* d is a date: [day, month]
_score_timing(d) ==
    LET base == 30
        month_end == IF d.day >= 26 THEN 30 ELSE IF d.day >= 20 THEN 15 ELSE 0
        quarter_end == IF d.month \in {3, 6, 9, 12} THEN 25 ELSE 0
        year_end == IF d.month = 12 THEN 15 ELSE 0
    IN  Min2(100, base + month_end + quarter_end + year_end)

\* mutant: the deepest discounts start after day 300, not on it
DiscountPcts_after_300(days_on_lot) ==
    IF days_on_lot > 300 THEN <<28, 23, 20>>
    ELSE IF days_on_lot >= 180 THEN <<23, 18, 15>>
    ELSE IF days_on_lot >= 90 THEN <<17, 13, 10>>
    ELSE IF days_on_lot >= 60 THEN <<12, 9, 7>>
    ELSE <<10, 7, 5>>

\* the discount percentages (aggressive, reasonable, likely) of a days_on_lot tier
DiscountPcts(days_on_lot) ==
    IF days_on_lot >= 300 THEN <<28, 23, 20>>
    ELSE IF days_on_lot >= 180 THEN <<23, 18, 15>>
    ELSE IF days_on_lot >= 90 THEN <<17, 13, 10>>
    ELSE IF days_on_lot >= 60 THEN <<12, 9, 7>>
    ELSE <<10, 7, 5>>

\* mutant: only the aggressive target is raised to the floor
_calculate_offers_floor_first(asking, true_cost, msrp, days_on_lot, rebates) ==
    LET carrying_costs == days_on_lot * CARRYING_COST_PER_DAY
        pcts == DiscountPcts(days_on_lot)
        aggressive == msrp * (100 - pcts[1]) - rebates * 100
        reasonable == msrp * (100 - pcts[2]) - rebates * 100
        likely == msrp * (100 - pcts[3]) - rebates * 100
        floor == (true_cost - carrying_costs) * 100
    IN  [aggressive |-> Max2(aggressive, floor),
         reasonable |-> reasonable,
         likely |-> likely,
         carrying_costs |-> carrying_costs]

\* OfferTargets before score_deal rounds them: the three targets are exact
\* fractions, kept in hundredths of a cent; carrying_costs in cents
_calculate_offers(asking, true_cost, msrp, days_on_lot, rebates) ==
    LET carrying_costs == days_on_lot * CARRYING_COST_PER_DAY
        pcts == DiscountPcts(days_on_lot)
        aggressive == msrp * (100 - pcts[1]) - rebates * 100
        reasonable == msrp * (100 - pcts[2]) - rebates * 100
        likely == msrp * (100 - pcts[3]) - rebates * 100
        floor == (true_cost - carrying_costs) * 100
    IN  [aggressive |-> Max2(aggressive, floor),
         reasonable |-> Max2(reasonable, floor),
         likely |-> Max2(likely, floor),
         carrying_costs |-> carrying_costs]

\* mutant: A+ starts above 90, not on it
_score_to_grade_above_90(score) ==
    IF score > 90 THEN "A+"
    ELSE IF score >= 80 THEN "A"
    ELSE IF score >= 70 THEN "B+"
    ELSE IF score >= 60 THEN "B"
    ELSE IF score >= 50 THEN "C+"
    ELSE IF score >= 40 THEN "C"
    ELSE IF score >= 30 THEN "D"
    ELSE "F"

_score_to_grade(score) ==
    IF score >= 90 THEN "A+"
    ELSE IF score >= 80 THEN "A"
    ELSE IF score >= 70 THEN "B+"
    ELSE IF score >= 60 THEN "B"
    ELSE IF score >= 50 THEN "C+"
    ELSE IF score >= 40 THEN "C"
    ELSE IF score >= 30 THEN "D"
    ELSE "F"

\* the weighted total, in hundredths of a point
WeightedTotal(price_score, days_score, incentive_score, supply_score, timing_score) ==
    price_score * 35 + days_score * 25 + incentive_score * 20
        + supply_score * 12 + timing_score * 8

\* what a caller of score_deal gets when a division by zero is executed
ZeroDivisionError == [error |-> "ZeroDivisionError"]

\* mutant: price_vs_cost_pct is computed whatever the true cost
DivisionByZero_unguarded_pct(asking_price, msrp, true_cost, rebates_available) ==
    true_cost = 0

\* some division of score_deal, get_pricing or a sub-scorer is executed with
\* a zero divisor: margin / msrp in get_pricing, buyer_savings / margin in
\* _score_price, rebates / msrp in _score_incentives and
\* (asking_price - true_cost) / true_cost in score_deal, each behind its guard
\* (days_supply / INDUSTRY_AVG_DAYS_SUPPLY divides by a non-zero constant)
DivisionByZero(asking_price, msrp, true_cost, rebates_available) ==
    \/ msrp > 0 /\ msrp = 0
    \/ ~(true_cost <= 0 \/ msrp <= 0) /\ ~(msrp - true_cost <= 0)
          /\ msrp - true_cost = 0
    \/ ~(msrp <= 0) /\ msrp = 0
    \/ true_cost # 0 /\ true_cost = 0

\* get_pricing is called without a database session: nothing is looked up
score_deal(asking_price, msrp, make, model, year, days_on_lot, dealer_cash, rebates_available, trim, score_date) ==
    LET pricing == get_pricing(year, make, model, msrp, trim, dealer_cash, NoneVal)
        true_cost == pricing.true_dealer_cost
        price_score == _score_price(asking_price, true_cost, msrp)
        days_score == _score_days_on_lot(days_on_lot)
        incentive_score == _score_incentives(rebates_available, msrp)
        supply_score == _score_market_supply(make, model)
        timing_score == _score_timing(score_date)
        total == WeightedTotal(price_score, days_score, incentive_score,
                               supply_score, timing_score)
        total_score == Min2(100, Max2(0, RoundHalfEven(total, 100)))
        offers == _calculate_offers(asking_price, true_cost, msrp, days_on_lot,
                                   rebates_available)
    IN  IF DivisionByZero(asking_price, msrp, true_cost, rebates_available)
        THEN ZeroDivisionError
        ELSE
        [score |-> total_score,
         grade |-> _score_to_grade(total_score),
         breakdown |-> [price |-> price_score,
                        days_on_lot |-> days_score,
                        incentives |-> incentive_score,
                        market_supply |-> supply_score,
                        timing |-> timing_score],
         pricing |-> pricing,
         offers |-> [aggressive |-> RoundHalfEven(offers.aggressive, 100),
                     reasonable |-> RoundHalfEven(offers.reasonable, 100),
                     likely |-> RoundHalfEven(offers.likely, 100),
                     carrying_costs |-> offers.carrying_costs]]

-----------------------------------------------------------------------------
(* services/negotiation_service.py                                         *)
(* Money in cents.  The point and script of a talking point are texts      *)
(* formatted from the same arguments; a talking point is modelled by its   *)
(* category and leverage.                                                  *)

\* mutant: curtailment starts on day 90, not after it
CurtailmentPct_from_90(days_on_lot) ==
    IF days_on_lot >= 90
    THEN IF days_on_lot > 180 THEN 15
         ELSE IF days_on_lot > 120 THEN 10
         ELSE 5
    ELSE 0

\* the percentage of invoice_price taken as the curtailment estimate
CurtailmentPct(days_on_lot) ==
    IF days_on_lot > 90
    THEN IF days_on_lot > 180 THEN 15
         ELSE IF days_on_lot > 120 THEN 10
         ELSE 5
    ELSE 0

\* mutant: the aggressive offer is the dealer's breakeven, with no floor
aggressive_offer_breakeven_only(dealer_breakeven, true_dealer_cost) ==
    dealer_breakeven * 100

\* max(dealer_breakeven, true_dealer_cost * 0.95), in hundredths of a cent
aggressive_offer(dealer_breakeven, true_dealer_cost) ==
    Max2(dealer_breakeven * 100, true_dealer_cost * 95)

\* mutant: the floor plan point is made from day 30 on, not after it
_build_talking_points_from_30(asking_price, invoice_price, days_on_lot, curtailment, rebates_available) ==
    (IF days_on_lot >= 30
     THEN <<[category |-> "Floor Plan Costs",
             leverage |-> IF days_on_lot > 90 THEN "high" ELSE "medium"]>>
     ELSE <<>>)
    \o (IF curtailment > 0
        THEN <<[category |-> "Curtailment Pressure", leverage |-> "high"]>>
        ELSE <<>>)
    \o (IF asking_price - invoice_price > 0
        THEN <<[category |-> "Invoice Reference", leverage |-> "medium"]>>
        ELSE <<>>)
    \o (IF rebates_available > 0
        THEN <<[category |-> "Available Rebates", leverage |-> "medium"]>>
        ELSE <<>>)
    \o <<[category |-> "Competing Offers", leverage |-> "high"],
         [category |-> "Closing Today", leverage |-> "medium"]>>

\* the arguments that decide which points are made and their leverage
_build_talking_points(asking_price, invoice_price, days_on_lot, curtailment, rebates_available) ==
    (IF days_on_lot > 30
     THEN <<[category |-> "Floor Plan Costs",
             leverage |-> IF days_on_lot > 90 THEN "high" ELSE "medium"]>>
     ELSE <<>>)
    \o (IF curtailment > 0
        THEN <<[category |-> "Curtailment Pressure", leverage |-> "high"]>>
        ELSE <<>>)
    \o (IF asking_price - invoice_price > 0
        THEN <<[category |-> "Invoice Reference", leverage |-> "medium"]>>
        ELSE <<>>)
    \o (IF rebates_available > 0
        THEN <<[category |-> "Available Rebates", leverage |-> "medium"]>>
        ELSE <<>>)
    \o <<[category |-> "Competing Offers", leverage |-> "high"],
         [category |-> "Closing Today", leverage |-> "medium"]>>

generate_negotiation_brief(asking_price, invoice_price, holdback, true_dealer_cost, days_on_lot, rebates_available) ==
    LET carrying_costs == days_on_lot * CARRYING_COST_PER_DAY
        curtailment == RoundHalfEven(invoice_price * CurtailmentPct(days_on_lot), 100)
        total_dealer_cost_to_hold == carrying_costs + curtailment
        dealer_breakeven == true_dealer_cost - total_dealer_cost_to_hold
        reasonable_offer == true_dealer_cost
        likely_settlement == RoundHalfEven((true_dealer_cost + asking_price) * 45, 100)
        asking_vs_invoice == asking_price - invoice_price
        asking_vs_true_cost == asking_price - true_dealer_cost
    IN  [dealer_economics |->
            [invoice_price |-> invoice_price,
             holdback |-> holdback,
             true_dealer_cost |-> true_dealer_cost,
             carrying_costs |-> carrying_costs,
             curtailment_estimate |-> curtailment,
             total_cost_to_hold |-> total_dealer_cost_to_hold,
             dealer_breakeven |-> dealer_breakeven,
             asking_vs_invoice |-> asking_vs_invoice,
             asking_vs_true_cost |-> asking_vs_true_cost,
             dealer_margin_at_asking |-> asking_vs_true_cost],
         offer_targets |->
            [aggressive |-> RoundHalfEven(
                                aggressive_offer(dealer_breakeven, true_dealer_cost),
                                100),
             reasonable |-> reasonable_offer,
             likely_settlement |-> likely_settlement],
         talking_points |->
            _build_talking_points(asking_price, invoice_price, days_on_lot,
                                  curtailment, rebates_available),
         rebates_available |-> rebates_available]

-----------------------------------------------------------------------------
(* config/section179_data.py                                               *)
(* Dollar amounts of the Section 179 calculator: a request's vehicle_price *)
(* and down_payment are whole dollars, its percentages whole percents, and *)
(* every amount of the result is in cents.                                 *)

SECTION_179_LIMIT == 1250000
HEAVY_SUV_CAP == 32000
GVWR_THRESHOLD == 6000
BUSINESS_USE_MINIMUM == 50
LUXURY_AUTO_FIRST_YEAR_CAP == 20400


GvwrInfo(gvwr_min, gvwr_max, is_pickup_6ft_bed) ==
    [gvwr_min |-> gvwr_min, gvwr_max |-> gvwr_max,
     is_pickup_6ft_bed |-> is_pickup_6ft_bed]

MODEL_GVWR ==
    << <<sF150, GvwrInfo(6100, 7850, TRUE)>>,
       <<sF250, GvwrInfo(9900, 10400, TRUE)>>,
       <<sF350, GvwrInfo(11200, 14000, TRUE)>>,
       <<sF450, GvwrInfo(14000, 16500, TRUE)>>,
       <<sRam1500, GvwrInfo(6500, 7100, TRUE)>>,
       <<sRam2500, GvwrInfo(9000, 10000, TRUE)>>,
       <<sRam3500, GvwrInfo(11000, 14000, TRUE)>>,
       <<sSilverado1500, GvwrInfo(6600, 7400, TRUE)>>,
       <<sSilverado2500HD, GvwrInfo(9500, 10650, TRUE)>>,
       <<sSilverado3500HD, GvwrInfo(11000, 14000, TRUE)>>,
       <<sSierra1500, GvwrInfo(6600, 7400, TRUE)>>,
       <<sSierra2500HD, GvwrInfo(9500, 10650, TRUE)>>,
       <<sSierra3500HD, GvwrInfo(11000, 14000, TRUE)>>,
       <<sTundra, GvwrInfo(6400, 7200, TRUE)>>,
       <<sTacoma, GvwrInfo(5400, 6100, TRUE)>>,
       <<sTitan, GvwrInfo(7100, 8800, TRUE)>>,
       <<sFrontier, GvwrInfo(5500, 6200, TRUE)>> >>

\* the keys of MODEL_GVWR that the partial match accepts for `model`
PartialMatches(model) ==
    {i \in 1..Len(MODEL_GVWR) :
        IsSubstring(MODEL_GVWR[i][1], model) \/ IsSubstring(model, MODEL_GVWR[i][1])}

\* NoneVal for None
get_gvwr_info(model) ==
    IF model = NoneStr \/ model = <<>> THEN NoneVal
    ELSE IF DictHas(MODEL_GVWR, model) THEN DictGet(MODEL_GVWR, model)
    ELSE IF PartialMatches(model) # {}
    THEN MODEL_GVWR[CHOOSE i \in PartialMatches(model) :
                        \A j \in PartialMatches(model) : i <= j][2]
    ELSE NoneVal

-----------------------------------------------------------------------------
(* services/section179_service.py                                          *)
(* An unrounded amount is the triple <<whole, n, d>>: whole + n/d cents    *)
(* with 0 <= n < d, so that no product leaves 32 bits.                     *)

\* whole + n / d with any integer n
Normalised(whole, n, d) == <<whole + (n \div d), n % d, d>>

\* round(x, 2) of the amount x, in cents: to the nearest cent, ties to the
\* even one (the float of a tie may lie on either side of it unless the
\* tie is exact in binary; on the calls served below the program's floats
\* round as the exact amounts do)
Round2(x) ==
    IF 2 * x[2] < x[3] THEN x[1]
    ELSE IF 2 * x[2] > x[3] THEN x[1] + 1
    ELSE IF x[1] % 2 = 0 THEN x[1] ELSE x[1] + 1

\* cents * (pct / 100)
PercentOf(cents, pct) ==
    Normalised((cents \div 100) * pct, (cents % 100) * pct, 100)

\* cents - x
Minus(cents, x) == Normalised(cents - x[1], 0 - x[2], x[3])

\* x / 12 for an amount x in hundredths
Twelfth(x) == Normalised(x[1] \div 12, (x[1] % 12) * 100 + x[2], 1200)

\* x - y for denominators whose product stays small
Difference(x, y) ==
    Normalised(x[1] - y[1], x[2] * y[3] - y[2] * x[3], x[3] * y[3])

\* mutant: business use of exactly the minimum is turned away as well
Disqualified_at_minimum(business_use_pct) ==
    business_use_pct <= BUSINESS_USE_MINIMUM

\* the check of the minimum business use
Disqualified(business_use_pct) == business_use_pct < BUSINESS_USE_MINIMUM

\* `if gvwr_override:` (None and 0 are falsy)
Truthy(gvwr_override) == gvwr_override # NoneInt /\ gvwr_override # 0

\* the cap notes, by their branch
PickupNote == "Pickup truck with 6ft+ bed: exempt from $32K SUV cap. Full Section 179 limit applies."
HeavySuvNote == "Non-pickup vehicle over 6,000 lbs: heavy SUV cap of $32,000 applies."
LuxuryAutoNote == "Vehicle under 6,000 lbs GVWR. IRC 280F luxury auto limit of $20,400 applies (first year with bonus depreciation)."
UnknownGvwrNote == "GVWR unknown. Assuming full Section 179 eligibility - verify GVWR for accuracy."

\* mutant: the pickup exemption is tested after the heavy SUV cap
deduction_cap_suv_first(gvwr, is_pickup) ==
    LET exceeds_gvwr == gvwr # NoneInt /\ gvwr > GVWR_THRESHOLD
    IN  IF exceeds_gvwr
        THEN [cap |-> HEAVY_SUV_CAP, cap_note |-> HeavySuvNote]
        ELSE IF exceeds_gvwr /\ is_pickup
        THEN [cap |-> SECTION_179_LIMIT, cap_note |-> PickupNote]
        ELSE IF gvwr # NoneInt
        THEN [cap |-> LUXURY_AUTO_FIRST_YEAR_CAP, cap_note |-> LuxuryAutoNote]
        ELSE [cap |-> SECTION_179_LIMIT, cap_note |-> UnknownGvwrNote]

\* deduction_cap and cap_note, in dollars
deduction_cap(gvwr, is_pickup) ==
    LET exceeds_gvwr == gvwr # NoneInt /\ gvwr > GVWR_THRESHOLD
    IN  IF exceeds_gvwr /\ is_pickup
        THEN [cap |-> SECTION_179_LIMIT, cap_note |-> PickupNote]
        ELSE IF exceeds_gvwr
        THEN [cap |-> HEAVY_SUV_CAP, cap_note |-> HeavySuvNote]
        ELSE IF gvwr # NoneInt
        THEN [cap |-> LUXURY_AUTO_FIRST_YEAR_CAP, cap_note |-> LuxuryAutoNote]
        ELSE [cap |-> SECTION_179_LIMIT, cap_note |-> UnknownGvwrNote]

\* mutant: the business-use share is not applied
first_year_deduction_full_price(vehicle_price, business_use_pct, cap) ==
    Min2(Min2(vehicle_price * 100, cap * 100), SECTION_179_LIMIT * 100)

\* min(business_portion, deduction_cap, SECTION_179_LIMIT), in cents
first_year_deduction(vehicle_price, business_use_pct, cap) ==
    Min2(Min2(vehicle_price * business_use_pct, cap * 100), SECTION_179_LIMIT * 100)

\* mutant: the tax savings are taken off the amount borrowed
Financing_net_of_savings(vehicle_price, down_payment, loan_interest_rate, loan_term_months, total_tax_savings) ==
    LET loan_amount == (vehicle_price - down_payment) * 100
                           - Round2(total_tax_savings)
        monthly_tax_benefit == Twelfth(total_tax_savings)
        monthly_payment ==
            Normalised(0, loan_amount, loan_term_months)
    IN  IF loan_interest_rate > 0 /\ loan_term_months > 0
        THEN IF loan_amount > 0
             THEN [down_payment |-> down_payment * 100,
                   loan_amount |-> loan_amount,
                   payment |-> "amortised",
                   monthly_tax_benefit |-> Round2(monthly_tax_benefit)]
             ELSE NoneVal
        ELSE IF loan_term_months > 0 /\ down_payment < vehicle_price
        THEN IF loan_amount > 0
             THEN [down_payment |-> down_payment * 100,
                   loan_amount |-> loan_amount,
                   payment |-> "straight-line",
                   monthly_payment |-> Round2(monthly_payment),
                   total_interest |-> 0,
                   total_loan_cost |-> loan_amount,
                   monthly_tax_benefit |-> Round2(monthly_tax_benefit),
                   effective_monthly_cost |->
                       Round2(Difference(monthly_payment, monthly_tax_benefit))]
             ELSE NoneVal
        ELSE NoneVal

\* the financing block, NoneVal for None; the amortised payment takes a
\* real power, so its four fields are left to "amortised"
Financing(vehicle_price, down_payment, loan_interest_rate, loan_term_months, total_tax_savings) ==
    LET loan_amount == (vehicle_price - down_payment) * 100
        monthly_tax_benefit == Twelfth(total_tax_savings)
        monthly_payment ==
            Normalised(0, loan_amount, loan_term_months)
    IN  IF loan_interest_rate > 0 /\ loan_term_months > 0
        THEN IF loan_amount > 0
             THEN [down_payment |-> down_payment * 100,
                   loan_amount |-> loan_amount,
                   payment |-> "amortised",
                   monthly_tax_benefit |-> Round2(monthly_tax_benefit)]
             ELSE NoneVal
        ELSE IF loan_term_months > 0 /\ down_payment < vehicle_price
        THEN IF loan_amount > 0
             THEN [down_payment |-> down_payment * 100,
                   loan_amount |-> loan_amount,
                   payment |-> "straight-line",
                   monthly_payment |-> Round2(monthly_payment),
                   total_interest |-> 0,
                   total_loan_cost |-> loan_amount,
                   monthly_tax_benefit |-> Round2(monthly_tax_benefit),
                   effective_monthly_cost |->
                       Round2(Difference(monthly_payment, monthly_tax_benefit))]
             ELSE NoneVal
        ELSE NoneVal

calculate_section_179(vehicle_price, business_use_pct, tax_bracket, state_tax_rate, down_payment, loan_interest_rate, loan_term_months, model, gvwr_override) ==
    IF Disqualified(business_use_pct)
    THEN [qualifies |-> FALSE,
          reason |-> [text |-> "Business use must be at least {BUSINESS_USE_MINIMUM}%. You entered {business_use_pct}%.",
                      minimum |-> BUSINESS_USE_MINIMUM,
                      entered |-> business_use_pct],
          vehicle_price |-> vehicle_price * 100,
          business_use_pct |-> business_use_pct]
    ELSE
    LET info == get_gvwr_info(model)
        gvwr == IF Truthy(gvwr_override) THEN gvwr_override
                ELSE IF info # NoneVal THEN info.gvwr_min
                ELSE NoneInt
        is_pickup == info # NoneVal /\ info.is_pickup_6ft_bed
        gvwr_note ==
            IF Truthy(gvwr_override) THEN "Using manually entered GVWR"
            ELSE IF info # NoneVal THEN "Estimated GVWR range: {gvwr_min}-{gvwr_max} lbs"
            ELSE "Model not in database. Enter GVWR manually for accurate calculation."
        selected == deduction_cap(gvwr, is_pickup)
        deduction == first_year_deduction(vehicle_price, business_use_pct, selected.cap)
        federal_savings == PercentOf(deduction, tax_bracket)
        state_savings == PercentOf(deduction, state_tax_rate)
        total_tax_savings == PercentOf(deduction, tax_bracket + state_tax_rate)
        effective_cost == Minus(vehicle_price * 100, total_tax_savings)
    IN  [qualifies |-> TRUE,
         vehicle_price |-> vehicle_price * 100,
         business_use_pct |-> business_use_pct,
         gvwr |-> gvwr,
         gvwr_note |-> gvwr_note,
         cap_note |-> selected.cap_note,
         first_year_deduction |-> deduction,
         federal_tax_savings |-> Round2(federal_savings),
         state_tax_savings |-> Round2(state_savings),
         total_tax_savings |-> Round2(total_tax_savings),
         effective_cost_after_tax |-> Round2(effective_cost),
         financing |-> Financing(vehicle_price, down_payment, loan_interest_rate,
                                 loan_term_months, total_tax_savings),
         tax_year |-> 2026,
         section_179_limit |-> SECTION_179_LIMIT * 100,
         bonus_depreciation_rate |-> 100]

-----------------------------------------------------------------------------
(* The calls the model serves.  Money in cents.                            *)

\* the largest days_on_lot sampled (the API accepts 0..3650)
MaxDaysOnLot == 320

\* every tier boundary of _score_days_on_lot and _calculate_offers, the day
\* before it, a fresh listing and the largest value
DaysOnLotValues ==
    {d \in 0..MaxDaysOnLot :
        \/ d \in {30, 60, 90, 120, 180, 270, 300}
        \/ d + 1 \in {30, 60, 90, 120, 180, 270, 300}
        \/ d \in {5, MaxDaysOnLot}}

\* -$100, $0, 1 cent, $100.01, $65,000
MsrpValues == {-10000, 0, 1, 10001, 6500000}

\* a cent, $93.50, $95, $97.50, $100.01, $55,000, $65,000
AskingValues == {1, 9350, 9500, 9750, 10001, 5500000, 6500000}

\* $0, $100, $3,000
DealerCashValues == {0, 10000, 300000}

\* $0, $1,000, $10,000
RebateValues == {0, 100000, 1000000}

ScoreDates ==
    {[day |-> 15, month |-> 2], [day |-> 20, month |-> 6], [day |-> 28, month |-> 12]}

\* (year, make, model, trim)
Vehicles ==
    { <<2026, sFord, sF150, sXLT>>,
      <<2026, sRam, sRam3500, NoneStr>>,
      <<2025, sRam, sRamRam2500, NoneStr>>,
      <<2026, sChevrolet, sSilverado1500, sWT>>,
      <<2026, sNoMake, sNoModel, NoneStr>> }

ScoreCalls ==
    [op : {"score_deal"}, asking_price : AskingValues, msrp : MsrpValues,
     vehicle : Vehicles, days_on_lot : DaysOnLotValues,
     dealer_cash : DealerCashValues, rebates_available : RebateValues,
     score_date : ScoreDates]

InitScore ==
    /\ cache = {}
    /\ call \in ScoreCalls
    /\ result = NoResult
    /\ ServerIdle

\* POST /score
ScoreListing ==
    /\ call.op = "score_deal"
    /\ result = NoResult
    /\ result' = score_deal(call.asking_price, call.msrp, call.vehicle[2],
                            call.vehicle[3], call.vehicle[1], call.days_on_lot,
                            call.dealer_cash, call.rebates_available,
                            call.vehicle[4], call.score_date)
    /\ UNCHANGED <<cache, call, server_vars>>

NextScore == ScoreListing

SpecScore == InitScore /\ [][NextScore]_vars

-----------------------------------------------------------------------------
(* Pricing with the invoice_price_cache table.                             *)

\* $0, $100.01, $44,530, $65,000
PricingMsrpValues == {0, 10001, 4453000, 6500000}

\* the vehicles above, and the F-150 without a trim and with an empty one
PricingVehicles ==
    Vehicles \cup {<<2026, sFord, sF150, NoneStr>>, <<2026, sFord, sF150, <<>> >>}

PricingCalls ==
    [op : {"get_pricing"}, vehicle : PricingVehicles, msrp : PricingMsrpValues,
     dealer_cash : DealerCashValues, with_db : BOOLEAN]

\* listings scored while the table may hold their invoice
CachedScoreCalls ==
    [op : {"score_deal"}, asking_price : {5500000}, msrp : {4453000, 6500000},
     vehicle : Vehicles, days_on_lot : {5, 300},
     dealer_cash : {0}, rebates_available : {0, 100000},
     score_date : {[day |-> 15, month |-> 2]}]

\* the database is empty until it is seeded
InitPricing ==
    /\ cache = {}
    /\ \/ call \in PricingCalls
       \/ call \in CachedScoreCalls
    /\ result = NoResult
    /\ ServerIdle

\* python -m backend.seed_data (a run that finds every row in the table
\* adds none and is no step)
SeedInvoicePrices ==
    /\ cache' = seed_invoice_prices(cache)
    /\ cache' # cache
    /\ UNCHANGED <<call, result, server_vars>>

\* get_pricing(year, make, model, msrp, trim, dealer_cash, db)
GetPricing ==
    /\ call.op = "get_pricing"
    /\ result = NoResult
    /\ \E cached \in QueryFirst(call.with_db, cache, call.vehicle[1], call.vehicle[2],
                                call.vehicle[3], call.vehicle[4]) :
          result' = get_pricing(call.vehicle[1], call.vehicle[2], call.vehicle[3],
                                call.msrp, call.vehicle[4], call.dealer_cash, cached)
    /\ UNCHANGED <<cache, call, server_vars>>

NextPricing == SeedInvoicePrices \/ GetPricing \/ ScoreListing

SpecPricing == InitPricing /\ [][NextPricing]_vars

-----------------------------------------------------------------------------
(* The Section 179 calculator.                                             *)

\* $15,000, $50,001, $90,000 and, past what the API accepts, $2,000,000
VehiclePriceValues == {15000, 50001, 90000, 2000000}

BusinessUsePctValues == {0, 49, 50, 51, 100}

TaxBracketValues == {0, 22, 37}

StateTaxRateValues == {0, 7}

DownPaymentValues == {0, 10000, 90000}

LoanInterestRateValues == {0, 6}

LoanTermValues == {0, 36}

\* no model, an empty one, table keys above and below the GVWR threshold,
\* a partial match and a model the table does not know
Section179Models == {NoneStr, <<>>, sF150, sTacoma, sRamRam2500, sNoModel}

GvwrOverrideValues == {NoneInt, 0, 5500, 6000, 6001, 7000}

Section179Calls ==
    [op : {"calculate_section_179"}, vehicle_price : VehiclePriceValues,
     business_use_pct : BusinessUsePctValues, tax_bracket : TaxBracketValues,
     state_tax_rate : StateTaxRateValues, down_payment : DownPaymentValues,
     loan_interest_rate : LoanInterestRateValues,
     loan_term_months : LoanTermValues, model : Section179Models,
     gvwr_override : GvwrOverrideValues]

Init179 ==
    /\ cache = {}
    /\ call \in Section179Calls
    /\ result = NoResult
    /\ ServerIdle

\* POST /section-179/calculate
Section179Calculate ==
    /\ call.op = "calculate_section_179"
    /\ result = NoResult
    /\ result' = calculate_section_179(
                     call.vehicle_price, call.business_use_pct, call.tax_bracket,
                     call.state_tax_rate, call.down_payment,
                     call.loan_interest_rate, call.loan_term_months,
                     call.model, call.gvwr_override)
    /\ UNCHANGED <<cache, call, server_vars>>

Next179 == Section179Calculate

Spec179 == Init179 /\ [][Next179]_vars

-----------------------------------------------------------------------------
(* The reference-table lookups, called on their own.                       *)

\* get_holdback on every make of HOLDBACK_RATES and one it does not list, at
\* msrp $100.01, $50,000, $55,000, $65,000 and invoice $92.01, $45,000,
\* $50,600, $59,800
HoldbackCalls ==
    [op : {"get_holdback"},
     make : {HOLDBACK_RATES[i][1] : i \in 1..Len(HOLDBACK_RATES)} \cup {sNoMake},
     msrp : {10001, 5000000, 5500000, 6500000},
     invoice : {9201, 4500000, 5060000, 5980000}]

\* estimate_invoice on the models of MODEL_GVWR (every model INVOICE_RATIOS
\* prices), the doubled "Ram Ram 2500", a bare "1500" and a model no table
\* lists, at every base_max and high_min of TRIM_THRESHOLDS and of the
\* default pair, the cent on either side of each, and $100.01, $40,000,
\* $75,000, $85,000
EstimateCalls ==
    LET marks == {TRIM_THRESHOLDS[i][2].base_max : i \in 1..Len(TRIM_THRESHOLDS)}
                 \cup {TRIM_THRESHOLDS[i][2].high_min : i \in 1..Len(TRIM_THRESHOLDS)}
                 \cup {4500000, 7000000}
    IN  [op : {"estimate_invoice"},
         make : {sFord, sRam, sChevrolet, sGMC, sToyota, sNissan, sNoMake},
         model : {MODEL_GVWR[i][1] : i \in 1..Len(MODEL_GVWR)}
                 \cup {sRamRam2500, s1500, sNoModel},
         msrp : marks \cup {v + 1 : v \in marks} \cup {v - 1 : v \in marks}
                \cup {10001, 4000000, 7500000, 8500000}]

\* _score_market_supply on the models of MODEL_GVWR (every key of
\* MODEL_DAYS_SUPPLY among them), on names that are part of a key or hold
\* one, on the empty name and on a model no key matches
SupplyCalls ==
    [op : {"_score_market_supply"},
     make : {sRam, sNoMake},
     model : {MODEL_GVWR[i][1] : i \in 1..Len(MODEL_GVWR)}
             \cup {sRamRam2500, s1500, s2500, s3500, sHD, sSierra, sSilverado,
                   sF150 \o sSp \o sXLT, <<>>, sNoModel}]

\* _score_timing on every date of a leap year
TimingCalls ==
    LET days(month) == IF month = 2 THEN 29
                       ELSE IF month \in {4, 6, 9, 11} THEN 30 ELSE 31
    IN  {c \in [op : {"_score_timing"}, d : [day : 1..31, month : 1..12]] :
            c.d.day <= days(c.d.month)}

InitTables ==
    /\ cache = {}
    /\ \/ call \in HoldbackCalls
       \/ call \in EstimateCalls
       \/ call \in SupplyCalls
       \/ call \in TimingCalls
    /\ result = NoResult
    /\ ServerIdle

\* get_holdback(make, msrp, invoice)
GetHoldback ==
    /\ call.op = "get_holdback"
    /\ result = NoResult
    /\ result' = [value |-> get_holdback(call.make, call.msrp, call.invoice)]
    /\ UNCHANGED <<cache, call, server_vars>>

\* estimate_invoice(make, model, msrp)
EstimateInvoice ==
    /\ call.op = "estimate_invoice"
    /\ result = NoResult
    /\ result' = [value |-> estimate_invoice(call.make, call.model, call.msrp)]
    /\ UNCHANGED <<cache, call, server_vars>>

\* _score_market_supply(make, model)
ScoreMarketSupply ==
    /\ call.op = "_score_market_supply"
    /\ result = NoResult
    /\ result' = [value |-> _score_market_supply(call.make, call.model)]
    /\ UNCHANGED <<cache, call, server_vars>>

\* _score_timing(d)
ScoreTiming ==
    /\ call.op = "_score_timing"
    /\ result = NoResult
    /\ result' = [value |-> _score_timing(call.d)]
    /\ UNCHANGED <<cache, call, server_vars>>

NextTables == GetHoldback \/ EstimateInvoice \/ ScoreMarketSupply \/ ScoreTiming

SpecTables == InitTables /\ [][NextTables]_vars

-----------------------------------------------------------------------------
(* api/webhook_routes.py and services/stripe_service.py: the Stripe        *)
(* webhook.  An identifier (event, customer, subscription, user id) is a   *)
(* TLA+ string and "" stands for a missing one (None and "" are both false *)
(* to the code's `if event_id:`); current_period_end 0 is a missing one.   *)
(* Deliveries are served by the workers of the deployment, each with its   *)
(* own session on the shared database (the endpoint's `except              *)
(* IntegrityError` is for two of them recording the same event); a step is *)
(* one round trip to the database.                                         *)

\* Stripe's subscription statuses and the stored ones
_STATUS_MAP ==
    << <<"active", "active">>,
       <<"past_due", "past_due">>,
       <<"canceled", "canceled">>,
       <<"unpaid", "expired">>,
       <<"incomplete", "expired">>,
       <<"incomplete_expired", "expired">>,
       <<"trialing", "active">> >>

\* a registered user who went through get_or_create_stripe_customer
User(id, stripe_customer_id) ==
    [id |-> id,
     stripe_customer_id |-> stripe_customer_id,
     subscription_tier |-> "free",
     subscription_status |-> "active",
     subscription_stripe_id |-> "",
     subscription_current_period_end |-> 0]

\* checkout.session.completed: the customer's user becomes an active Pro,
\* unless the customer is unknown or the metadata names another user
process_checkout_completed(event_data, db) ==
    IF event_data.customer \notin DOMAIN db THEN db
    ELSE IF /\ event_data.metadata_user_id # ""
            /\ db[event_data.customer].id # event_data.metadata_user_id
         THEN db
         ELSE [db EXCEPT ![event_data.customer] =
                  [@ EXCEPT !.subscription_tier = "pro",
                            !.subscription_status = "active",
                            !.subscription_stripe_id = event_data.subscription]]

\* mutant: the status follows the event, the tier is left as it is
process_subscription_updated_status_only(event_data, db) ==
    IF event_data.customer \notin DOMAIN db THEN db
    ELSE LET mapped_status == IF DictHas(_STATUS_MAP, event_data.status)
                              THEN DictGet(_STATUS_MAP, event_data.status)
                              ELSE "expired"
         IN  [db EXCEPT ![event_data.customer] =
                 [@ EXCEPT !.subscription_status = mapped_status,
                           !.subscription_current_period_end =
                               IF event_data.current_period_end # 0
                               THEN event_data.current_period_end ELSE @]]

\* customer.subscription.updated: status and tier follow the event
process_subscription_updated(event_data, db) ==
    IF event_data.customer \notin DOMAIN db THEN db
    ELSE LET mapped_status == IF DictHas(_STATUS_MAP, event_data.status)
                              THEN DictGet(_STATUS_MAP, event_data.status)
                              ELSE "expired"
         IN  [db EXCEPT ![event_data.customer] =
                 [@ EXCEPT !.subscription_status = mapped_status,
                           !.subscription_tier =
                               IF mapped_status \in {"active", "past_due"}
                               THEN "pro" ELSE "free",
                           !.subscription_current_period_end =
                               IF event_data.current_period_end # 0
                               THEN event_data.current_period_end ELSE @]]

\* customer.subscription.deleted: back to the free tier
process_subscription_deleted(event_data, db) ==
    IF event_data.customer \notin DOMAIN db THEN db
    ELSE [db EXCEPT ![event_data.customer] =
             [@ EXCEPT !.subscription_tier = "free",
                       !.subscription_status = "canceled",
                       !.subscription_stripe_id = ""]]

\* invoice.payment_failed: the subscription is past due
process_invoice_payment_failed(event_data, db) ==
    IF event_data.customer \notin DOMAIN db THEN db
    ELSE [db EXCEPT ![event_data.customer] =
             [@ EXCEPT !.subscription_status = "past_due"]]

\* the event types stripe_webhook has a handler for
HandledTypes ==
    {"checkout.session.completed", "customer.subscription.updated",
     "customer.subscription.deleted", "invoice.payment_failed"}

\* the users table after the handler of the event's type
ProcessEvent(event, db) ==
    CASE event.type = "checkout.session.completed" ->
            process_checkout_completed(event.data, db)
      [] event.type = "customer.subscription.updated" ->
            process_subscription_updated(event.data, db)
      [] event.type = "customer.subscription.deleted" ->
            process_subscription_deleted(event.data, db)
      [] event.type = "invoice.payment_failed" ->
            process_invoice_payment_failed(event.data, db)
      [] OTHER -> db

Event(id, type, customer, subscription, metadata_user_id, status, current_period_end) ==
    [id |-> id, type |-> type,
     data |-> [customer |-> customer, subscription |-> subscription,
               metadata_user_id |-> metadata_user_id, status |-> status,
               current_period_end |-> current_period_end]]

\* the events Stripe sends: a checkout, an update to past_due, to unpaid, to
\* active, to canceled and to a status _STATUS_MAP does not list, a deletion
\* and a failed payment of customer cus_1, an unhandled type, a checkout
\* whose metadata names another user, one of an unknown customer and an
\* event without an id
WebhookEvents ==
    {Event("evt_checkout", "checkout.session.completed", "cus_1", "sub_1", "1", "", 0),
     Event("evt_past_due", "customer.subscription.updated", "cus_1", "", "", "past_due", 1700),
     Event("evt_unpaid", "customer.subscription.updated", "cus_1", "", "", "unpaid", 0),
     Event("evt_active", "customer.subscription.updated", "cus_1", "", "", "active", 0),
     Event("evt_canceled", "customer.subscription.updated", "cus_1", "", "", "canceled", 0),
     Event("evt_paused", "customer.subscription.updated", "cus_1", "", "", "paused", 0),
     Event("evt_deleted", "customer.subscription.deleted", "cus_1", "", "", "", 0),
     Event("evt_failed", "invoice.payment_failed", "cus_1", "", "", "", 0),
     Event("evt_other", "customer.created", "cus_1", "", "", "", 0),
     Event("evt_mismatch", "checkout.session.completed", "cus_1", "sub_2", "2", "", 0),
     Event("evt_unknown", "checkout.session.completed", "cus_2", "sub_3", "", "", 0),
     Event("", "customer.subscription.deleted", "cus_1", "", "", "", 0)}

\* the number of deliveries in flight
MaxDeliveries == 3

\* a delivery as it arrives: its Stripe-Signature header ("" when missing)
\* and the event its payload verifies to
Delivery(sig_header, event) ==
    [sig_header |-> sig_header, event |-> event, pc |-> "verify",
     status_code |-> 0, applied |-> FALSE, skipped |-> FALSE]

InitWebhook ==
    /\ cache = {} /\ call = NoResult /\ result = NoResult
    /\ users = [c \in {"cus_1"} |-> User("1", c)]
    /\ processed_webhook_events = {}
    /\ deliveries \in [1..MaxDeliveries ->
                         {Delivery("t=1,v1=good", e) : e \in WebhookEvents}
                         \cup {Delivery(h, Event("evt_checkout",
                                  "checkout.session.completed", "cus_1", "sub_1",
                                  "1", "", 0)) : h \in {"", "t=1,v1=bad"}}]
    /\ dealerships = <<>> /\ requests = <<>> /\ today = 0
    /\ CircuitIdle

\* stripe_webhook up to the idempotency check: 400 without a valid
\* signature; an event whose id is recorded is skipped
VerifyAndCheck ==
    \E d \in DOMAIN deliveries :
        /\ deliveries[d].pc = "verify"
        /\ LET event_id == deliveries[d].event.id
           IN  deliveries' = [deliveries EXCEPT ![d] =
                  IF @.sig_header # "t=1,v1=good"
                  THEN [@ EXCEPT !.pc = "done", !.status_code = 400]
                  ELSE IF event_id # "" /\ event_id \in processed_webhook_events
                  THEN [@ EXCEPT !.pc = "done", !.status_code = 200,
                                 !.skipped = TRUE]
                  ELSE [@ EXCEPT !.pc = "dispatch"]]
        /\ UNCHANGED <<circuit_vars, cache, call, result, users, processed_webhook_events,
                       dealerships, requests, today>>

\* the handler of the event's type, which commits its change of the user
Dispatch ==
    \E d \in DOMAIN deliveries :
        /\ deliveries[d].pc = "dispatch"
        /\ users' = ProcessEvent(deliveries[d].event, users)
        /\ deliveries' = [deliveries EXCEPT ![d] =
              [@ EXCEPT !.pc = "record",
                        !.applied = deliveries[d].event.type \in HandledTypes]]
        /\ UNCHANGED <<circuit_vars, cache, call, result, processed_webhook_events,
                       dealerships, requests, today>>

\* the event is recorded as processed; the IntegrityError of an id that is
\* already there is rolled back
RecordProcessed ==
    \E d \in DOMAIN deliveries :
        /\ deliveries[d].pc = "record"
        /\ processed_webhook_events' =
              IF deliveries[d].event.id # ""
              THEN processed_webhook_events \cup {deliveries[d].event.id}
              ELSE processed_webhook_events
        /\ deliveries' = [deliveries EXCEPT ![d] =
              [@ EXCEPT !.pc = "done", !.status_code = 200]]
        /\ UNCHANGED <<circuit_vars, cache, call, result, users, dealerships, requests, today>>

NextWebhook == VerifyAndCheck \/ Dispatch \/ RecordProcessed

SpecWebhook == InitWebhook /\ [][NextWebhook]_vars

-----------------------------------------------------------------------------
(* The subscription handlers of services/stripe_service.py, applied one    *)
(* after the other to the events of WebhookEvents in any order, a repeated *)
(* event included.                                                         *)

\* the number of events handled
MaxEvents == 4

InitSubscription ==
    /\ cache = {} /\ call = NoResult /\ result = NoResult
    /\ users = [c \in {"cus_1"} |-> User("1", c)]
    /\ processed_webhook_events = {}
    /\ deliveries = <<>>
    /\ dealerships = <<>> /\ requests = <<>> /\ today = 0
    /\ CircuitIdle

\* the handler of an event's type is called on the event; deliveries keeps
\* the events handled, oldest first
HandleEvent ==
    \E event \in WebhookEvents :
        /\ Len(deliveries) < MaxEvents
        /\ users' = ProcessEvent(event, users)
        /\ deliveries' = Append(deliveries,
              [Delivery("t=1,v1=good", event) EXCEPT
                  !.pc = "done", !.status_code = 200,
                  !.applied = event.type \in HandledTypes])
        /\ UNCHANGED <<circuit_vars, cache, call, result, processed_webhook_events,
                       dealerships, requests, today>>

NextSubscription == HandleEvent

SpecSubscription == InitSubscription /\ [][NextSubscription]_vars

-----------------------------------------------------------------------------
(* api/dealer_auth.py: API key authentication and rate limiting of the     *)
(* dealer API.  date.today() is a day number, from 1 on, and its           *)
(* strftime("%Y-%m") the number of the month the day is in; 0 stands for   *)
(* the None of last_request_date and last_request_month.  The dependency   *)
(* is a plain function: FastAPI runs each request in a thread of its pool, *)
(* with a session of its own.                                              *)

\* the last day the clock reaches
MaxDay == 3

\* days in a month
DaysPerMonth == 2

\* the number of requests sent to the dealer API
MaxRequests == 4

\* daily_rate_limit and monthly_rate_limit of the dealership
DailyRateLimit == 2
MonthlyRateLimit == 3

\* today.strftime("%Y-%m")
MonthOf(day) == (day - 1) \div DaysPerMonth + 1

\* the salted SHA-256 of a key: equal hashes for equal keys only
_hash_api_key(api_key) == <<"sha256", "salt", api_key>>

\* a dealership as create_dealer_key.py stores it
Dealership(raw_key, is_active, daily_limit, monthly_limit) ==
    [api_key_hash |-> _hash_api_key(raw_key),
     is_active |-> is_active,
     daily_rate_limit |-> daily_limit,
     monthly_rate_limit |-> monthly_limit,
     requests_today |-> 0,
     requests_this_month |-> 0,
     last_request_date |-> 0,
     last_request_month |-> 0]

\* no key, the key of the active dealership, the key of a deactivated
\* dealership and a key of no dealership
ApiKeys == {"", "dh_dealer_1", "dh_dealer_2", "dh_dealer_x"}

\* a request before get_dealership_required runs
Request ==
    [pc |-> "start", api_key |-> "", dealer |-> 0, today |-> 0,
     status_code |-> 0, detail |-> ""]

InitDealer ==
    /\ cache = {} /\ call = NoResult /\ result = NoResult
    /\ users = <<>> /\ processed_webhook_events = {} /\ deliveries = <<>>
    /\ dealerships = <<Dealership("dh_dealer_1", TRUE, DailyRateLimit, MonthlyRateLimit),
                       Dealership("dh_dealer_2", FALSE, DailyRateLimit, MonthlyRateLimit)>>
    /\ requests = [r \in 1..MaxRequests |-> Request]
    /\ today = 1
    /\ CircuitIdle

\* midnight
NewDay ==
    /\ today < MaxDay
    /\ today' = today + 1
    /\ UNCHANGED <<circuit_vars, cache, call, result, users, processed_webhook_events,
                   deliveries, dealerships, requests>>

\* the active dealerships whose hash is the hash of the key
MatchingDealers(api_key) ==
    {i \in DOMAIN dealerships :
        /\ dealerships[i].is_active
        /\ dealerships[i].api_key_hash = _hash_api_key(api_key)}

\* get_dealership_required up to the rate-limit checks: 401 without the key
\* of an active dealership; the counters of an earlier day or month are reset
\* on the session's object only (the session does not autoflush, and a 429
\* closes it without a commit); 429 at a limit
CheckRateLimits ==
    \E r \in DOMAIN requests, api_key \in ApiKeys :
        /\ requests[r].pc = "start"
        /\ requests' = [requests EXCEPT ![r] =
              IF api_key = ""
              THEN [@ EXCEPT !.pc = "done", !.status_code = 401,
                             !.detail = "API key required (X-API-Key header)"]
              ELSE IF MatchingDealers(api_key) = {}
              THEN [@ EXCEPT !.pc = "done", !.api_key = api_key,
                             !.status_code = 401, !.detail = "Invalid API key"]
              ELSE
              LET id == CHOOSE i \in MatchingDealers(api_key) :
                            \A j \in MatchingDealers(api_key) : i <= j
                  dealer == dealerships[id]
                  current_month == MonthOf(today)
                  requests_today == IF dealer.last_request_date # today THEN 0
                                    ELSE dealer.requests_today
                  requests_this_month ==
                      IF dealer.last_request_month # current_month THEN 0
                      ELSE dealer.requests_this_month
              IN  IF requests_today >= dealer.daily_rate_limit
                  THEN [@ EXCEPT !.pc = "done", !.api_key = api_key, !.dealer = id,
                                 !.today = today, !.status_code = 429,
                                 !.detail = "Daily rate limit exceeded"]
                  ELSE IF requests_this_month >= dealer.monthly_rate_limit
                  THEN [@ EXCEPT !.pc = "done", !.api_key = api_key, !.dealer = id,
                                 !.today = today, !.status_code = 429,
                                 !.detail = "Monthly rate limit exceeded"]
                  ELSE [@ EXCEPT !.pc = "increment", !.api_key = api_key,
                                 !.dealer = id, !.today = today]]
        /\ UNCHANGED <<circuit_vars, cache, call, result, users, processed_webhook_events,
                       deliveries, dealerships, today>>

\* the UPDATE of the counters and its commit: the row's own counters are
\* incremented; the reset values pending on the session's object are among
\* the columns the UPDATE sets, so the session expires them instead of
\* flushing them
IncrementCounters ==
    \E r \in DOMAIN requests :
        /\ requests[r].pc = "increment"
        /\ dealerships' = [dealerships EXCEPT ![requests[r].dealer] =
              [@ EXCEPT !.requests_today = @ + 1,
                        !.requests_this_month = @ + 1,
                        !.last_request_date = requests[r].today,
                        !.last_request_month = MonthOf(requests[r].today)]]
        /\ requests' = [requests EXCEPT ![r] =
              [@ EXCEPT !.pc = "done", !.status_code = 200]]
        /\ UNCHANGED <<circuit_vars, cache, call, result, users, processed_webhook_events,
                       deliveries, today>>

NextDealer == NewDay \/ CheckRateLimits \/ IncrementCounters

SpecDealer == InitDealer /\ [][NextDealer]_vars

-----------------------------------------------------------------------------
(* generate_negotiation_brief, called on its own.                          *)

\* every boundary of the curtailment tiers and of the floor plan point, the
\* day after it, a fresh listing and the largest value; prices of a cent, of
\* the tests and around them; an invoice of $0 and of a cent, on which every
\* percentage rounds to $0; a true dealer cost of $0 and of a cent
BriefCalls ==
    [op : {"generate_negotiation_brief"},
     asking_price : {1, 5000000, 5655000, 6000000, 7000000},
     invoice_price : {0, 1, 5850000, 6000000, 6300000},
     holdback : {210000},
     true_dealer_cost : {0, 1, 100001, 5655000, 5790000, 6090000},
     days_on_lot : {d \in 0..MaxDaysOnLot :
                       \/ d \in {30, 90, 120, 180}
                       \/ d - 1 \in {30, 90, 120, 180}
                       \/ d \in {0, 100, MaxDaysOnLot}},
     rebates_available : {0, 500000}]

InitBrief ==
    /\ cache = {}
    /\ call \in BriefCalls
    /\ result = NoResult
    /\ ServerIdle

\* generate_negotiation_brief(asking_price, msrp, invoice_price, holdback,
\* true_dealer_cost, days_on_lot, rebates_available, make, model, year)
GenerateBrief ==
    /\ call.op = "generate_negotiation_brief"
    /\ result = NoResult
    /\ result' = generate_negotiation_brief(call.asking_price, call.invoice_price,
                                            call.holdback, call.true_dealer_cost,
                                            call.days_on_lot, call.rebates_available)
    /\ UNCHANGED <<cache, call, server_vars>>

NextBrief == GenerateBrief

SpecBrief == InitBrief /\ [][NextBrief]_vars

-----------------------------------------------------------------------------
(* services/marketcheck_service.py: the circuit breaker of the live        *)
(* MarketCheck client.  The endpoints that fetch are synchronous, so       *)
(* fetches of several requests overlap; _check_circuit, _record_success    *)
(* and _record_failure are each taken as one step.  _fetch_trends_live and *)
(* _fetch_stats_live differ in the URL and in the stub they fall back to,  *)
(* not in their use of the circuit: a fetch stands for either.             *)

_CIRCUIT_FAILURE_THRESHOLD == 5
_CIRCUIT_RESET_TIMEOUT == 300

\* the fetches made, and the most that are in flight together
MaxFetches == 7
MaxInFlight == 2

\* the clock advances in steps of TickSeconds, up to MaxTime
TickSeconds == 150
MaxTime == 600

\* _check_circuit at time t: whether MarketCheckUnavailableError is raised,
\* and the global it leaves
_check_circuit(opened_at, t) ==
    IF opened_at # NoneInt
    THEN IF t - opened_at < _CIRCUIT_RESET_TIMEOUT
         THEN [raises |-> TRUE, _circuit_opened_at |-> opened_at]
         ELSE [raises |-> FALSE, _circuit_opened_at |-> NoneInt]
    ELSE [raises |-> FALSE, _circuit_opened_at |-> opened_at]

\* the globals _record_success leaves
_record_success ==
    [_circuit_failure_count |-> 0, _circuit_opened_at |-> NoneInt]

\* mutant: the circuit opens one failure early
_record_failure_one_early(failure_count, opened_at, t) ==
    [_circuit_failure_count |-> failure_count + 1,
     _circuit_opened_at |->
         IF failure_count + 1 >= _CIRCUIT_FAILURE_THRESHOLD - 1 THEN t
         ELSE opened_at]

\* the globals _record_failure leaves at time t
_record_failure(failure_count, opened_at, t) ==
    [_circuit_failure_count |-> failure_count + 1,
     _circuit_opened_at |->
         IF failure_count + 1 >= _CIRCUIT_FAILURE_THRESHOLD THEN t
         ELSE opened_at]

InitCircuit ==
    /\ cache = {} /\ call = NoResult /\ result = NoResult
    /\ users = <<>> /\ processed_webhook_events = {} /\ deliveries = <<>>
    /\ dealerships = <<>> /\ requests = <<>> /\ today = 0
    /\ CircuitIdle

\* time passes
Tick ==
    /\ now + TickSeconds <= MaxTime
    /\ now' = now + TickSeconds
    /\ UNCHANGED <<cache, call, result, users, processed_webhook_events,
                   deliveries, dealerships, requests, today,
                   _circuit_failure_count, _circuit_opened_at, fetches, outcomes>>

\* _fetch_trends_live or _fetch_stats_live up to the call of the API: with
\* the circuit open the fetch ends with stub data, otherwise it goes on to
\* the API (after the timeout as the probe, the circuit closed again)
CheckCircuit ==
    LET check == _check_circuit(_circuit_opened_at, now)
    IN  /\ Len(fetches) < MaxFetches
        /\ Cardinality({f \in DOMAIN fetches : fetches[f].pc = "api"})
              < MaxInFlight
        /\ fetches' = Append(fetches,
              IF check.raises
              THEN [pc |-> "done", source |-> "stub", called_api |-> FALSE]
              ELSE [pc |-> "api", source |-> "", called_api |-> FALSE])
        /\ _circuit_opened_at' = check._circuit_opened_at
        /\ UNCHANGED <<cache, call, result, users, processed_webhook_events,
                       deliveries, dealerships, requests, today,
                       _circuit_failure_count, now, outcomes>>

\* the API answers: _record_success, and the fetch returns its data
ApiSucceeds ==
    \E f \in DOMAIN fetches :
        /\ fetches[f].pc = "api"
        /\ _circuit_failure_count' = _record_success._circuit_failure_count
        /\ _circuit_opened_at' = _record_success._circuit_opened_at
        /\ fetches' = [fetches EXCEPT ![f] =
              [@ EXCEPT !.pc = "done", !.source = "marketcheck",
                        !.called_api = TRUE]]
        /\ outcomes' = Append(outcomes, "success")
        /\ UNCHANGED <<cache, call, result, users, processed_webhook_events,
                       deliveries, dealerships, requests, today, now>>

\* the API fails, after its retries: _record_failure, and the fetch returns
\* stub data
ApiFails ==
    \E f \in DOMAIN fetches :
        LET failure == _record_failure(_circuit_failure_count,
                                       _circuit_opened_at, now)
        IN  /\ fetches[f].pc = "api"
            /\ _circuit_failure_count' = failure._circuit_failure_count
            /\ _circuit_opened_at' = failure._circuit_opened_at
            /\ fetches' = [fetches EXCEPT ![f] =
                  [@ EXCEPT !.pc = "done", !.source = "stub",
                            !.called_api = TRUE]]
            /\ outcomes' = Append(outcomes, "failure")
            /\ UNCHANGED <<cache, call, result, users, processed_webhook_events,
                           deliveries, dealerships, requests, today, now>>

NextCircuit == Tick \/ CheckCircuit \/ ApiSucceeds \/ ApiFails

SpecCircuit == InitCircuit /\ [][NextCircuit]_vars

-----------------------------------------------------------------------------
(* Claims about score_deal, checked under SpecScore.                       *)

ScoreDone == call.op = "score_deal" /\ result # NoResult

ValidListing ==
    /\ call.asking_price > 0 /\ call.msrp > 0 /\ call.days_on_lot >= 0
    /\ call.dealer_cash >= 0 /\ call.rebates_available >= 0

\* the score of the served listing had its days_on_lot been d
ScoreAtDays(d) ==
    score_deal(call.asking_price, call.msrp, call.vehicle[2], call.vehicle[3],
               call.vehicle[1], d, call.dealer_cash, call.rebates_available,
               call.vehicle[4], call.score_date)

\* true_dealer_cost - days_on_lot * 7.90 of the served listing, in cents
OfferFloor == result.pricing.true_dealer_cost - call.days_on_lot * 790

\* C1: for every valid listing (asking_price > 0, msrp > 0, days_on_lot,
\* dealer_cash, rebates_available >= 0), any make/model and score date, the
\* score is an integer in 0..100 and each of the five sub-scores is in 0..100.
C1_ScoreInRange ==
    (ScoreDone /\ ValidListing) =>
        /\ result.score \in 0..100
        /\ \A k \in {"price", "days_on_lot", "incentives", "market_supply", "timing"} :
              result.breakdown[k] \in 0..100

\* a valid listing that reaches the top of three sub-score ranges
C1_Witness ==
    /\ ScoreDone /\ ValidListing
    /\ result.score >= 90
    /\ result.breakdown.price = 100
    /\ result.breakdown.timing = 100
    /\ result.breakdown.market_supply = 100

\* C2 as stated: for every input of score_deal (any msrp), the returned
\* offers satisfy aggressive <= reasonable <= likely.
C2_OffersOrderedAnyMsrp ==
    ScoreDone =>
        /\ result.offers.aggressive <= result.offers.reasonable
        /\ result.offers.reasonable <= result.offers.likely

\* C2 amended: for every input of score_deal with msrp >= 0, the returned
\* offers satisfy aggressive <= reasonable <= likely, also when one, two or
\* all three targets were raised to the floor.
C2_OffersOrdered ==
    (ScoreDone /\ call.msrp >= 0) =>
        /\ result.offers.aggressive <= result.offers.reasonable
        /\ result.offers.reasonable <= result.offers.likely

\* two targets were raised to the floor and the third was not
C2_Witness ==
    /\ ScoreDone /\ call.msrp > 0
    /\ result.offers.aggressive = OfferFloor
    /\ result.offers.reasonable = OfferFloor
    /\ result.offers.likely > OfferFloor

\* the discount triple the claim gives for a days_on_lot, in percent
C3_Triple(d) ==
    IF d >= 300 THEN <<28, 23, 20>>
    ELSE IF d >= 180 THEN <<23, 18, 15>>
    ELSE IF d >= 90 THEN <<17, 13, 10>>
    ELSE IF d >= 60 THEN <<12, 9, 7>>
    ELSE <<10, 7, 5>>

\* max(msrp * (1 - pct) - rebates, true_dealer_cost - days_on_lot * 7.90),
\* as the cents amount score_deal returns (rounded to the cent)
C3_Target(pct) ==
    RoundHalfEven(Max2(call.msrp * (100 - pct) - call.rebates_available * 100,
                       OfferFloor * 100), 100)

\* C3: each returned offer target is, to the cent,
\* max(msrp * (1 - pct) - rebates_available, true_dealer_cost - days_on_lot * 7.90)
\* with the discount triple of the days_on_lot tier; no target is below
\* true_dealer_cost - days_on_lot * 7.90; carrying_costs = days_on_lot * 7.90.
C3_OfferFormula ==
    ScoreDone =>
        /\ result.offers.aggressive = C3_Target(C3_Triple(call.days_on_lot)[1])
        /\ result.offers.reasonable = C3_Target(C3_Triple(call.days_on_lot)[2])
        /\ result.offers.likely = C3_Target(C3_Triple(call.days_on_lot)[3])
        /\ result.offers.aggressive >= OfferFloor
        /\ result.offers.reasonable >= OfferFloor
        /\ result.offers.likely >= OfferFloor
        /\ result.offers.carrying_costs = call.days_on_lot * 790

\* day 300 exactly: the deepest triple applies, the discounted price is the
\* likely target and the floor is the aggressive one
C3_Witness ==
    /\ ScoreDone
    /\ call.days_on_lot = 300
    /\ call.msrp = 6500000
    /\ result.offers.aggressive = OfferFloor
    /\ result.offers.likely = 5200000 - call.rebates_available
    /\ result.offers.likely > OfferFloor

\* the days-on-lot sub-score the claim gives
C8_Step(d) ==
    IF d >= 270 THEN 100
    ELSE IF d >= 180 THEN 80
    ELSE IF d >= 120 THEN 65
    ELSE IF d >= 90 THEN 50
    ELSE IF d >= 60 THEN 35
    ELSE IF d >= 30 THEN 20
    ELSE 10

\* C8: with everything else fixed, for d1 <= d2 the days-on-lot sub-score and
\* the total score at d1 are <= those at d2; the sub-score takes the values
\* 10, 20, 35, 50, 65, 80, 100, stepping up at d = 30, 60, 90, 120, 180, 270.
C8_DaysMonotone ==
    ScoreDone =>
        /\ result.breakdown.days_on_lot = C8_Step(call.days_on_lot)
        /\ \A d2 \in DaysOnLotValues :
              d2 >= call.days_on_lot =>
                 LET later == ScoreAtDays(d2)
                 IN  /\ result.breakdown.days_on_lot <= later.breakdown.days_on_lot
                     /\ result.score <= later.score

\* the day before a boundary: one more day raises sub-score and total
C8_Witness ==
    /\ ScoreDone
    /\ call.days_on_lot = 269
    /\ result.breakdown.days_on_lot = 80
    /\ ScoreAtDays(270).breakdown.days_on_lot = 100
    /\ ScoreAtDays(270).score > result.score

\* the cache rows for the served listing's year/make/model/trim
C9_Rows == CacheQuery(cache, call.vehicle[1], call.vehicle[2], call.vehicle[3],
                      call.vehicle[4])

\* C9: when a cached invoice/holdback pair exists for the listing's
\* year/make/model/trim, the pricing block of the score result is the Pricing
\* Estimator's "cached" result verbatim (source = "cached", the same
\* invoice_price, holdback and true_dealer_cost), and the price sub-score and
\* the offer floor are computed from that true_dealer_cost.  Stated of the
\* step that serves the listing while the row is in the table.
C9_CachedPricingVerbatim ==
    [][(call.op = "score_deal" /\ result = NoResult /\ result' # NoResult
            /\ C9_Rows # {}) =>
         \E row \in C9_Rows :
            LET cached == get_pricing(call.vehicle[1], call.vehicle[2], call.vehicle[3],
                                      call.msrp, call.vehicle[4], call.dealer_cash, row)
            IN  /\ result'.pricing = cached
                /\ result'.pricing.source = "cached"
                /\ result'.breakdown.price =
                      _score_price(call.asking_price, cached.true_dealer_cost, call.msrp)
                /\ result'.offers.aggressive >=
                      cached.true_dealer_cost - call.days_on_lot * 790]_vars

FreshAtMsrp ==
    /\ call.days_on_lot = 5 /\ call.asking_price = call.msrp
    /\ call.rebates_available = 0 /\ call.dealer_cash = 0

\* C10 as stated: for every make/model, every msrp > 0 and every score date,
\* a fresh listing (days_on_lot = 5, asking_price = msrp, no rebates, no
\* dealer cash) scores strictly below 30.
C10_FreshBelow30 ==
    (ScoreDone /\ call.msrp > 0 /\ FreshAtMsrp) => result.score < 30

\* C10 amended: for every make/model, every msrp >= $1.00 and every score
\* date, such a fresh listing scores at most 30, and strictly below 30 unless
\* the market-supply and the timing sub-scores are both 100.
C10_FreshAtMost30 ==
    (ScoreDone /\ call.msrp >= 100 /\ FreshAtMsrp) =>
        /\ result.score <= 30
        /\ result.score = 30 <=>
              (result.breakdown.market_supply = 100 /\ result.breakdown.timing = 100)

\* Ram 3500 in the last days of December: the fresh listing scores 30
C10_Witness ==
    /\ ScoreDone /\ call.msrp >= 100 /\ FreshAtMsrp
    /\ call.vehicle[3] = sRam3500
    /\ call.score_date = [day |-> 28, month |-> 12]
    /\ result.score = 30
    /\ result.grade = "D"

\* C15: score_deal and its sub-scorers do not fail on malformed facts: with
\* msrp <= 0 or a true dealer cost <= 0 (dealer_cash >= invoice - holdback)
\* the call completes without a division error, the price sub-score is the
\* neutral 50, the incentive sub-score is 0 when msrp <= 0, and the score is
\* within 0..100.
C15_NoDivisionError ==
    ScoreDone =>
        LET true_cost == get_pricing(call.vehicle[1], call.vehicle[2], call.vehicle[3],
                                     call.msrp, call.vehicle[4], call.dealer_cash,
                                     NoneVal).true_dealer_cost
        IN  (call.msrp <= 0 \/ true_cost <= 0) =>
                /\ result # ZeroDivisionError
                /\ result.breakdown.price = 50
                /\ call.msrp <= 0 => result.breakdown.incentives = 0
                /\ result.score \in 0..100

\* msrp 0 without dealer cash: the true dealer cost is exactly 0, the divisor
\* of price_vs_cost_pct
C15_Witness ==
    /\ ScoreDone
    /\ call.msrp = 0 /\ call.dealer_cash = 0 /\ call.rebates_available = 100000
    /\ result # ZeroDivisionError
    /\ result.pricing.true_dealer_cost = 0
    /\ result.breakdown.price = 50 /\ result.breakdown.incentives = 0

\* the price sub-score the tiers of C19 give the served listing, whose true
\* dealer cost is below its msrp: capture_pct = (msrp - asking_price) /
\* (msrp - true_cost) * 100 is at least k iff (msrp - asking_price) * 100 >=
\* k * (msrp - true_cost)
C19_Tier ==
    LET true_cost == result.pricing.true_dealer_cost
        margin == call.msrp - true_cost
        buyer_savings == call.msrp - call.asking_price
    IN  IF call.asking_price <= true_cost THEN 100
        ELSE IF buyer_savings * 100 >= 80 * margin THEN 90
        ELSE IF buyer_savings * 100 >= 60 * margin THEN 75
        ELSE IF buyer_savings * 100 >= 40 * margin THEN 55
        ELSE IF buyer_savings * 100 >= 20 * margin THEN 35
        ELSE IF buyer_savings * 100 >= 0 THEN 15
        ELSE 5

\* C19 as claimed: for msrp > 0 and true_cost > 0 the price sub-score is 100
\* whenever asking <= true_cost, and otherwise follows capture_pct: >= 80 ->
\* 90, >= 60 -> 75, >= 40 -> 55, >= 20 -> 35, >= 0 -> 15, negative -> 5
\* (capture_pct has no value when true_cost = msrp; nothing is then required
\* of a listing asking more than the true cost).
C19_PriceTiersAnyCost ==
    (ScoreDone /\ call.msrp > 0 /\ result.pricing.true_dealer_cost > 0) =>
        /\ call.asking_price <= result.pricing.true_dealer_cost =>
              result.breakdown.price = 100
        /\ result.pricing.true_dealer_cost < call.msrp =>
              result.breakdown.price = C19_Tier

\* C19 amended: for msrp > 0 and 0 < true_cost < msrp the price sub-score is
\* 100 whenever asking <= true_cost, and otherwise follows capture_pct: >= 80
\* -> 90, >= 60 -> 75, >= 40 -> 55, >= 20 -> 35, >= 0 -> 15, negative -> 5;
\* for true_cost >= msrp it is the neutral 50.
C19_PriceTiers ==
    (ScoreDone /\ call.msrp > 0 /\ result.pricing.true_dealer_cost > 0) =>
        IF result.pricing.true_dealer_cost < call.msrp
        THEN result.breakdown.price = C19_Tier
        ELSE result.breakdown.price = 50

\* a $100.01 F-150 asked at $93.50 captures 65% of the $10 margin
C19_Witness ==
    /\ ScoreDone
    /\ call.msrp = 10001 /\ call.asking_price = 9350 /\ call.dealer_cash = 0
    /\ call.vehicle[3] = sF150
    /\ result.pricing.true_dealer_cost = 9001
    /\ result.breakdown.price = 75

-----------------------------------------------------------------------------
(* Claims about get_pricing, checked under SpecPricing.                    *)

PricingDone == call.op = "get_pricing" /\ result # NoResult

\* get_pricing of the served call with another dealer_cash and the row `cached`
PricingWith(dealer_cash, cached) ==
    get_pricing(call.vehicle[1], call.vehicle[2], call.vehicle[3], call.msrp,
                call.vehicle[4], dealer_cash, cached)

\* if the served call was answered from `cached` (a row, or NoneVal for an
\* estimate), the same call with dealer cash dc2 costs the dealer the
\* difference less
C4_CashDelta(dc2, cached) ==
    PricingWith(call.dealer_cash, cached) = result =>
        PricingWith(dc2, cached).true_dealer_cost =
            result.true_dealer_cost - (dc2 - call.dealer_cash)

\* C4: every result of get_pricing, "cached" or "estimated", satisfies
\* true_dealer_cost = invoice_price - holdback - dealer_cash and
\* margin_from_msrp = msrp - true_dealer_cost on the returned fields; with
\* all other inputs fixed, raising dealer_cash by d lowers true_dealer_cost
\* by exactly d.
C4_PricingInvariant ==
    PricingDone =>
        /\ result.source \in {"cached", "estimated"}
        /\ result.true_dealer_cost =
              result.invoice_price - result.holdback - result.dealer_cash
        /\ result.margin_from_msrp = result.msrp - result.true_dealer_cost
        /\ \A dc2 \in DealerCashValues :
              /\ C4_CashDelta(dc2, NoneVal)
              /\ \A cached \in seed_invoice_prices({}) : C4_CashDelta(dc2, cached)

\* a cached result with dealer cash
C4_Witness ==
    /\ PricingDone
    /\ result.source = "cached"
    /\ result.dealer_cash = 300000
    /\ result.invoice_price = 4052000
    /\ result.true_dealer_cost = 4052000 - 133590 - 300000

\* C13: get_pricing reports source "cached" if and only if it has a database
\* session and a row of the table matches the year, make and model of the
\* call, and its trim when a (non-empty) trim is given; the returned
\* invoice_price and holdback are then that row's invoice price and holdback
\* amount; without a session or a matching row the source is "estimated",
\* invoice_price is estimate_invoice(make, model, msrp) and holdback is
\* get_holdback(make, msrp, invoice_price).  Stated of the step that serves
\* the call.
C13_CachedIffFound ==
    [][(call.op = "get_pricing" /\ result = NoResult /\ result' # NoResult) =>
         LET year == call.vehicle[1]
             make == call.vehicle[2]
             model == call.vehicle[3]
             trim == call.vehicle[4]
             given == trim # NoneStr /\ trim # <<>>
             rows == {r \in cache : /\ call.with_db
                                    /\ r.year = year /\ r.make = make /\ r.model = model
                                    /\ given => r.trim = trim}
         IN  /\ result'.source = "cached" <=> rows # {}
             /\ rows # {} =>
                   \E row \in rows : /\ result'.invoice_price = row.invoice_price
                                     /\ result'.holdback = row.holdback_amount
             /\ rows = {} =>
                   /\ result'.source = "estimated"
                   /\ result'.invoice_price = estimate_invoice(make, model, call.msrp)
                   /\ result'.holdback =
                         get_holdback(make, call.msrp, result'.invoice_price)]_vars

\* the 2026 Ford F-150 XLT at msrp $65,000 answered from its seeded row, whose
\* holdback $1,335.90 is not the 3% of msrp an estimate would give
C13_Witness ==
    /\ PricingDone
    /\ call.with_db /\ call.vehicle = <<2026, sFord, sF150, sXLT>>
    /\ call.msrp = 6500000 /\ call.dealer_cash = 0
    /\ result.source = "cached"
    /\ result.invoice_price = 4052000 /\ result.holdback = 133590
    /\ get_holdback(sFord, call.msrp, result.invoice_price) = 195000

-----------------------------------------------------------------------------
(* Claims about calculate_section_179, checked under Spec179.              *)

Done179 == call.op = "calculate_section_179" /\ result # NoResult

Qualifies179 == Done179 /\ result.qualifies

\* C5: with business_use_pct < 50 the result is qualifies = false with a
\* reason and carries no gvwr, deduction, tax-savings, effective-cost or
\* financing field, whatever the other inputs are; with business_use_pct = 50
\* exactly the result is qualifies = true.
C5_BusinessUseGate ==
    Done179 =>
        /\ call.business_use_pct < 50 =>
              /\ result.qualifies = FALSE
              /\ "reason" \in DOMAIN result
              /\ DOMAIN result \cap
                    {"gvwr", "first_year_deduction", "federal_tax_savings",
                     "state_tax_savings", "total_tax_savings",
                     "effective_cost_after_tax", "financing"} = {}
        /\ call.business_use_pct = 50 => result.qualifies = TRUE

\* 49% business use of a financed heavy pickup is turned away
C5_Witness ==
    /\ Done179
    /\ call.business_use_pct = 49
    /\ call.model = sF150 /\ call.gvwr_override = 7000
    /\ call.loan_term_months = 36 /\ call.down_payment = 10000
    /\ result.qualifies = FALSE
    /\ DOMAIN result = {"qualifies", "reason", "vehicle_price", "business_use_pct"}

\* the model table knows the requested model as a pickup with a 6ft bed:
\* a key of the table equals it, contains it or is contained in it
C6_RecognizedPickup ==
    /\ call.model # NoneStr /\ call.model # <<>>
    /\ \E i \in 1..Len(MODEL_GVWR) :
          /\ \/ MODEL_GVWR[i][1] = call.model
             \/ IsSubstring(MODEL_GVWR[i][1], call.model)
             \/ IsSubstring(call.model, MODEL_GVWR[i][1])
          /\ MODEL_GVWR[i][2].is_pickup_6ft_bed

\* the deduction is the business portion limited by `cap` dollars
C6_CappedAt(cap) ==
    result.first_year_deduction =
        Min2(call.vehicle_price * call.business_use_pct, cap * 100)

\* C6: for a qualifying calculation the deduction cap follows the resolved
\* GVWR and the model table: GVWR > 6000 and a recognized pickup -> 1,250,000;
\* GVWR > 6000 and no recognized model -> 32,000; GVWR known and <= 6000 ->
\* 20,400 for any model; GVWR unknown -> 1,250,000 with an advisory cap note.
C6_CapPriority ==
    Qualifies179 =>
        /\ (result.gvwr # NoneInt /\ result.gvwr > 6000 /\ C6_RecognizedPickup) =>
              C6_CappedAt(1250000) /\ result.cap_note = PickupNote
        /\ (result.gvwr # NoneInt /\ result.gvwr > 6000 /\ ~C6_RecognizedPickup) =>
              C6_CappedAt(32000) /\ result.cap_note = HeavySuvNote
        /\ (result.gvwr # NoneInt /\ result.gvwr <= 6000) =>
              C6_CappedAt(20400) /\ result.cap_note = LuxuryAutoNote
        /\ result.gvwr = NoneInt =>
              C6_CappedAt(1250000) /\ result.cap_note = UnknownGvwrNote

\* a $2,000,000 "Ram Ram 2500" of 7,000 lbs used for business only: the
\* partial match makes it a pickup and the deduction is the statutory limit
C6_Witness ==
    /\ Qualifies179
    /\ call.vehicle_price = 2000000 /\ call.business_use_pct = 100
    /\ call.gvwr_override = 7000 /\ call.model = sRamRam2500
    /\ result.gvwr = 7000
    /\ result.first_year_deduction = 125000000

\* the cap, in dollars, that the result's cap note stands for
C7_SelectedCap ==
    CASE result.cap_note = PickupNote -> 1250000
      [] result.cap_note = HeavySuvNote -> 32000
      [] result.cap_note = LuxuryAutoNote -> 20400
      [] result.cap_note = UnknownGvwrNote -> 1250000

\* min(vehicle_price * business_use_pct / 100, selected cap, 1,250,000), in cents
C7_Deduction ==
    Min2(Min2(call.vehicle_price * call.business_use_pct, C7_SelectedCap * 100),
         125000000)

\* `cents` is the amount x to the nearest cent
C7_ToTheCent(cents, x) ==
    \/ cents = x[1] /\ 2 * x[2] <= x[3]
    \/ cents = x[1] + 1 /\ 2 * x[2] >= x[3]

\* the deduction and the two savings are the claimed amounts, to the cent
C7_DeductionAndSavings ==
    /\ result.first_year_deduction = C7_Deduction
    /\ C7_ToTheCent(result.federal_tax_savings,
                    PercentOf(C7_Deduction, call.tax_bracket))
    /\ C7_ToTheCent(result.state_tax_savings,
                    PercentOf(C7_Deduction, call.state_tax_rate))

\* C7 as claimed: first_year_deduction = min(vehicle_price *
\* business_use_pct/100, selected cap, 1,250,000), federal and state savings
\* are the deduction times the bracket and the state rate, the returned
\* total_tax_savings is the sum of the returned federal and state savings,
\* and effective_cost_after_tax = vehicle_price - total_tax_savings.
C7_SavingsAddUp ==
    Qualifies179 =>
        /\ C7_DeductionAndSavings
        /\ result.total_tax_savings =
              result.federal_tax_savings + result.state_tax_savings
        /\ result.effective_cost_after_tax =
              call.vehicle_price * 100 - result.total_tax_savings

\* C7 amended: every returned amount is the claimed amount to the nearest
\* cent, total and effective cost being rounded from the unrounded savings:
\* total_tax_savings is deduction * (tax_bracket + state_tax_rate)/100 to the
\* cent, within a cent of the sum of the returned federal and state savings,
\* and effective_cost_after_tax is vehicle_price less that amount to the
\* cent, within a cent of vehicle_price less the returned total.
C7_SavingsToTheCent ==
    Qualifies179 =>
        LET total == PercentOf(C7_Deduction, call.tax_bracket + call.state_tax_rate)
            sum == result.federal_tax_savings + result.state_tax_savings
            rest == call.vehicle_price * 100 - result.total_tax_savings
        IN  /\ C7_DeductionAndSavings
            /\ C7_ToTheCent(result.total_tax_savings, total)
            /\ result.total_tax_savings - sum \in {-1, 0, 1}
            /\ C7_ToTheCent(result.effective_cost_after_tax,
                            Minus(call.vehicle_price * 100, total))
            /\ result.effective_cost_after_tax - rest \in {-1, 0, 1}

\* $50,001 at 51% business use, 37% federal and 7% state: the deduction is
\* $25,500.51 and the savings $9,435.19 and $1,785.04, a cent more than
\* their total $11,220.22
C7_Witness ==
    /\ Qualifies179
    /\ call.vehicle_price = 50001 /\ call.business_use_pct = 51
    /\ call.tax_bracket = 37 /\ call.state_tax_rate = 7
    /\ result.first_year_deduction = 2550051
    /\ result.federal_tax_savings = 943519
    /\ result.state_tax_savings = 178504
    /\ result.total_tax_savings = 1122022
    /\ result.effective_cost_after_tax = 3878078

-----------------------------------------------------------------------------
(* Claims about the reference tables, checked under SpecTables.            *)

HoldbackDone == result # NoResult /\ call.op = "get_holdback"

EstimateDone == result # NoResult /\ call.op = "estimate_invoice"

\* C11: get_holdback(make, msrp, invoice) is rate * msrp, whatever the
\* invoice, for every make the table lists on the msrp basis; rate * invoice,
\* whatever the msrp, for every make listed on the invoice basis; and 2% of
\* msrp for every make the table does not list.  Ram at msrp $65,000 gives
\* $1,950, Chevrolet at invoice $50,600 gives $1,518, an unlisted make at
\* msrp $50,000 gives $1,000.
C11_Holdback ==
    HoldbackDone =>
        LET listed == DictHas(HOLDBACK_RATES, call.make)
            info == DictGet(HOLDBACK_RATES, call.make)
        IN  /\ (listed /\ info.basis = "msrp") =>
                  /\ result.value = RoundHalfEven(info.rate * call.msrp, 100)
                  /\ \A other \in HoldbackCalls :
                        get_holdback(call.make, call.msrp, other.invoice) = result.value
            /\ (listed /\ info.basis = "invoice") =>
                  /\ result.value = RoundHalfEven(info.rate * call.invoice, 100)
                  /\ \A other \in HoldbackCalls :
                        get_holdback(call.make, other.msrp, call.invoice) = result.value
            /\ ~listed => result.value = RoundHalfEven(2 * call.msrp, 100)
            /\ (call.make = sRam /\ call.msrp = 6500000) => result.value = 195000
            /\ (call.make = sChevrolet /\ call.invoice = 5060000) =>
                  result.value = 151800
            /\ (call.make = sNoMake /\ call.msrp = 5000000) => result.value = 100000

\* Chevrolet at msrp $55,000 and invoice $50,600: 3% of the invoice
C11_Witness ==
    /\ HoldbackDone
    /\ call.make = sChevrolet /\ call.msrp = 5500000 /\ call.invoice = 5060000
    /\ result.value = 151800

\* C12: estimate_invoice(make, model, msrp) takes the ratios listed under
\* "make model", else those under the bare model; with ratios found it is
\* msrp times the base ratio when msrp <= base_max, the high ratio when
\* msrp >= high_min and the mid ratio strictly in between, base_max and
\* high_min being the model's thresholds or $45,000 and $70,000 when the
\* model has none; with no ratios found it is msrp * 0.92.  A Ford F-150 at
\* $40,000 gives $37,200 and at $75,000 gives $66,750.
C12_Estimate ==
    EstimateDone =>
        LET make_model == call.make \o sSp \o call.model
            by_make == DictHas(INVOICE_RATIOS, make_model)
            found == by_make \/ DictHas(INVOICE_RATIOS, call.model)
            ratios == IF by_make THEN DictGet(INVOICE_RATIOS, make_model)
                      ELSE DictGet(INVOICE_RATIOS, call.model)
            listed == DictHas(TRIM_THRESHOLDS, call.model)
            base_max == IF listed THEN DictGet(TRIM_THRESHOLDS, call.model).base_max
                        ELSE 4500000
            high_min == IF listed THEN DictGet(TRIM_THRESHOLDS, call.model).high_min
                        ELSE 7000000
            times(ratio) == RoundHalfEven(call.msrp * ratio, 100)
        IN  /\ (found /\ call.msrp <= base_max) => result.value = times(ratios.base)
            /\ (found /\ call.msrp >= high_min) => result.value = times(ratios.high)
            /\ (found /\ base_max < call.msrp /\ call.msrp < high_min) =>
                  result.value = times(ratios.mid)
            /\ ~found => result.value = times(92)
            /\ (call.make = sFord /\ call.model = sF150 /\ call.msrp = 4000000) =>
                  result.value = 3720000
            /\ (call.make = sFord /\ call.model = sF150 /\ call.msrp = 7500000) =>
                  result.value = 6675000

\* a Ford F-150 at exactly its base_max of $42,000: 93%
C12_Witness ==
    /\ EstimateDone
    /\ call.make = sFord /\ call.model = sF150 /\ call.msrp = 4200000
    /\ result.value = 3906000

\* C14: for every supplied gvwr_override (0 included), with or without a
\* model, the gvwr of the result is the override and the cap regime is
\* selected from that value, the pickup status still coming from the model
\* table when the model is recognized; the GVWR of the model table is used
\* only when no override is supplied.
C14_OverrideWins ==
    Qualifies179 =>
        IF call.gvwr_override # NoneInt
        THEN /\ result.gvwr = call.gvwr_override
             /\ (call.gvwr_override > 6000 /\ C6_RecognizedPickup) =>
                   C6_CappedAt(1250000) /\ result.cap_note = PickupNote
             /\ (call.gvwr_override > 6000 /\ ~C6_RecognizedPickup) =>
                   C6_CappedAt(32000) /\ result.cap_note = HeavySuvNote
             /\ call.gvwr_override <= 6000 =>
                   C6_CappedAt(20400) /\ result.cap_note = LuxuryAutoNote
        ELSE LET info == get_gvwr_info(call.model)
             IN  result.gvwr = IF info # NoneVal THEN info.gvwr_min ELSE NoneInt

-----------------------------------------------------------------------------
(* Claims about _score_market_supply, checked under SpecTables.            *)

SupplyDone == result # NoResult /\ call.op = "_score_market_supply"

RECURSIVE C20_FirstMatch(_, _)
\* the value of the first key of MODEL_DAYS_SUPPLY, from position i on, that
\* contains the model name or is contained in it; 0 when there is none
C20_FirstMatch(model, i) ==
    IF i > Len(MODEL_DAYS_SUPPLY) THEN 0
    ELSE IF \/ IsSubstring(MODEL_DAYS_SUPPLY[i][1], model)
            \/ IsSubstring(model, MODEL_DAYS_SUPPLY[i][1])
         THEN MODEL_DAYS_SUPPLY[i][2]
         ELSE C20_FirstMatch(model, i + 1)

\* days_supply(model) of C20 with `unknown` for a model matching no key: the
\* table value on an exact key match, otherwise the first partial match
C20_DaysSupply(unknown) ==
    IF \E i \in 1..Len(MODEL_DAYS_SUPPLY) : MODEL_DAYS_SUPPLY[i][1] = call.model
    THEN LET i == CHOOSE i \in 1..Len(MODEL_DAYS_SUPPLY) :
                      MODEL_DAYS_SUPPLY[i][1] = call.model
         IN  MODEL_DAYS_SUPPLY[i][2]
    ELSE IF C20_FirstMatch(call.model, 1) # 0 THEN C20_FirstMatch(call.model, 1)
    ELSE unknown

\* the step function of days_supply / 76
C20_Step(days_supply) ==
    IF days_supply * 10 >= 40 * 76 THEN 100
    ELSE IF days_supply * 10 >= 25 * 76 THEN 85
    ELSE IF days_supply * 10 >= 15 * 76 THEN 65
    ELSE IF days_supply * 10 >= 10 * 76 THEN 45
    ELSE IF days_supply * 10 >= 7 * 76 THEN 25
    ELSE 10

\* C20 as claimed: the market-supply sub-score is the step function of
\* days_supply(model)/76 (>= 4 -> 100, >= 2.5 -> 85, >= 1.5 -> 65, >= 1.0 ->
\* 45, >= 0.7 -> 25, else 10), days_supply(model) being the table value on an
\* exact key match, otherwise the value of the first key that contains the
\* model name or is contained in it, and otherwise the industry average of 76.
C20_SupplyStepAverage ==
    SupplyDone => result.value = C20_Step(C20_DaysSupply(76))

\* C20 amended: the same step function of days_supply(model)/76 for a model
\* matching a key exactly or partially; for a model matching no key the
\* sub-score is 40.
C20_SupplyStep ==
    SupplyDone =>
        result.value = IF C20_DaysSupply(0) = 0 THEN 40
                       ELSE C20_Step(C20_DaysSupply(0))

\* "1500" is in five keys; the first, "Ram 1500" with 120 days, gives 65
C20_Witness ==
    /\ SupplyDone
    /\ call.model = s1500
    /\ C20_DaysSupply(0) = 120
    /\ result.value = 65

-----------------------------------------------------------------------------
(* Claims about the Stripe webhook, checked under SpecWebhook.             *)

\* the deliveries of the event id that had the event's handler applied
C16_Applied(event_id) ==
    {d \in DOMAIN deliveries :
        deliveries[d].event.id = event_id /\ deliveries[d].applied}

\* C16: for each Stripe event id the subscription handler of that event is
\* applied at most once over all deliveries of the id, deliveries handled
\* concurrently and deliveries interleaved with other events of the customer
\* included; a delivery whose id is already recorded is answered 200
\* (received) and has no handler applied.
C16_AppliedOnce ==
    /\ \A d \in DOMAIN deliveries :
          deliveries[d].event.id # "" =>
              Cardinality(C16_Applied(deliveries[d].event.id)) <= 1
    /\ \A d \in DOMAIN deliveries :
          deliveries[d].skipped =>
              deliveries[d].status_code = 200 /\ ~deliveries[d].applied

-----------------------------------------------------------------------------
(* Claims about the dealer API's rate limits, checked under SpecDealer.    *)

\* the requests of dealership i that were admitted (answered by the
\* endpoint, not with 429 or 401)
C17_Admitted(i) ==
    {r \in DOMAIN requests :
        /\ requests[r].dealer = i
        /\ requests[r].pc = "done" /\ requests[r].status_code = 200}

\* C17: for every active dealership the number of requests admitted within
\* one calendar day never exceeds daily_rate_limit and within one calendar
\* month never exceeds monthly_rate_limit, also when several requests with
\* the same API key are handled concurrently.
C17_WithinLimits ==
    \A i \in DOMAIN dealerships :
        dealerships[i].is_active =>
            /\ \A day \in 1..MaxDay :
                  Cardinality({r \in C17_Admitted(i) : requests[r].today = day})
                      <= dealerships[i].daily_rate_limit
            /\ \A month \in 1..MonthOf(MaxDay) :
                  Cardinality({r \in C17_Admitted(i) :
                                  MonthOf(requests[r].today) = month})
                      <= dealerships[i].monthly_rate_limit

\* C18: on the first authenticated request of a new calendar day
\* (respectively month) the daily (monthly) counter restarts from zero:
\* after that request the stored requests_today (requests_this_month) is 1,
\* so that a further daily_rate_limit - 1 (monthly_rate_limit - 1) requests
\* are admitted in the period.  Stated of the step that counts the request.
C18_CounterRestarts ==
    [][\A r \in DOMAIN requests :
          (requests[r].pc = "increment" /\ requests'[r].pc = "done") =>
              LET before == dealerships[requests[r].dealer]
                  after == dealerships'[requests[r].dealer]
              IN  /\ before.last_request_date < requests[r].today =>
                        after.requests_today = 1
                  /\ before.last_request_month < MonthOf(requests[r].today) =>
                        after.requests_this_month = 1]_vars

-----------------------------------------------------------------------------
(* Claims about _score_timing, checked under SpecTables.                   *)

TimingDone == result # NoResult /\ call.op = "_score_timing"

\* C21: for every date the timing sub-score equals min(100, 30 + (30 if day
\* >= 26, else 15 if day >= 20, else 0) + (25 if month in {3,6,9,12}) + (15
\* if month = 12)); it lies in 30..100 and, at the same day of month, a
\* quarter-end month scores strictly higher than a non-quarter-end month.
C21_Timing ==
    TimingDone =>
        LET day == call.d.day
            month == call.d.month
            sum == 30 + (IF day >= 26 THEN 30 ELSE IF day >= 20 THEN 15 ELSE 0)
                      + (IF month \in {3, 6, 9, 12} THEN 25 ELSE 0)
                      + (IF month = 12 THEN 15 ELSE 0)
        IN  /\ result.value = (IF sum > 100 THEN 100 ELSE sum)
            /\ result.value \in 30..100
            /\ month \in {3, 6, 9, 12} =>
                  \A other \in (1..12) \ {3, 6, 9, 12} :
                      result.value > _score_timing([day |-> day, month |-> other])

\* 26 December: 30 + 30 + 25 + 15 = 100, against 60 on the 26th of a month
\* that ends no quarter
C21_Witness ==
    /\ TimingDone
    /\ call.d = [day |-> 26, month |-> 12]
    /\ result.value = 100
    /\ _score_timing([day |-> 26, month |-> 11]) = 60

-----------------------------------------------------------------------------
(* Claims about the grade, checked under SpecScore.                        *)

\* the place of a grade in the order F < D < C < C+ < B < B+ < A < A+
C22_Rank(grade) ==
    CHOOSE i \in 1..8 : <<"F", "D", "C", "C+", "B", "B+", "A", "A+">>[i] = grade

\* C22: the grade returned by score_deal is a function of the returned score
\* only (>= 90 -> A+, >= 80 -> A, >= 70 -> B+, >= 60 -> B, >= 50 -> C+, >= 40
\* -> C, >= 30 -> D, else F), and it is monotonic: a higher score never gets
\* a lower grade.
C22_Grade ==
    ScoreDone =>
        LET score == result.score
        IN  /\ result.grade = CASE score >= 90 -> "A+"
                                [] score \in 80..89 -> "A"
                                [] score \in 70..79 -> "B+"
                                [] score \in 60..69 -> "B"
                                [] score \in 50..59 -> "C+"
                                [] score \in 40..49 -> "C"
                                [] score \in 30..39 -> "D"
                                [] score < 30 -> "F"
            /\ \A higher \in score..100 :
                  C22_Rank(_score_to_grade(higher)) >= C22_Rank(result.grade)
            /\ \A lower \in 0..score :
                  C22_Rank(_score_to_grade(lower)) <= C22_Rank(result.grade)

\* a listing scored exactly 90, the lowest A+
C22_Witness ==
    /\ ScoreDone
    /\ result.score = 90
    /\ result.grade = "A+"

-----------------------------------------------------------------------------
(* Claims about the negotiation brief, checked under SpecBrief.            *)

BriefDone == result # NoResult /\ call.op = "generate_negotiation_brief"

\* pct percent of an amount in cents, to the cent
C23_PercentOfInvoice(pct) == RoundHalfEven(call.invoice_price * pct, 100)

\* C23: the brief's curtailment_estimate is a step function of days_on_lot
\* applied to invoice_price: 0 for days_on_lot <= 90, 5% of invoice for
\* 91..120, 10% for 121..180 and 15% for days_on_lot > 180 (the boundaries 90,
\* 120 and 180 belong to the lower tier).
C23_Curtailment ==
    BriefDone =>
        LET days == call.days_on_lot
            estimate == result.dealer_economics.curtailment_estimate
        IN  /\ days <= 90 => estimate = 0
            /\ days \in 91..120 => estimate = C23_PercentOfInvoice(5)
            /\ days \in 121..180 => estimate = C23_PercentOfInvoice(10)
            /\ days > 180 => estimate = C23_PercentOfInvoice(15)

\* day 120 of a $60,000 invoice is still in the 5% tier: $3,000
C23_Witness ==
    /\ BriefDone
    /\ call.days_on_lot = 120
    /\ call.invoice_price = 6000000
    /\ result.dealer_economics.curtailment_estimate = 300000


\* x is the amount in cents nearest to n hundredths of a cent
C24_ToTheCent(x, n) == 100 * x - n \in -50..50

C25_Categories ==
    [i \in DOMAIN result.talking_points |-> result.talking_points[i].category]

\* C25: in every brief, talking_points contains a category exactly when its
\* trigger holds (Floor Plan Costs iff days_on_lot > 30, Curtailment Pressure
\* iff curtailment > 0, Invoice Reference iff asking_price > invoice_price,
\* Available Rebates iff rebates_available > 0, Competing Offers and Closing
\* Today always), each at most once, and the categories present appear in
\* exactly that order, so the list ends with Competing Offers followed by
\* Closing Today.
C25_TalkingPoints ==
    BriefDone =>
        LET Triggered(category) ==
                CASE category = "Floor Plan Costs" -> call.days_on_lot > 30
                  [] category = "Curtailment Pressure" ->
                        result.dealer_economics.curtailment_estimate > 0
                  [] category = "Invoice Reference" ->
                        call.asking_price > call.invoice_price
                  [] category = "Available Rebates" -> call.rebates_available > 0
                  [] OTHER -> TRUE
            n == Len(C25_Categories)
        IN  /\ C25_Categories =
                  SelectSeq(<<"Floor Plan Costs", "Curtailment Pressure",
                              "Invoice Reference", "Available Rebates",
                              "Competing Offers", "Closing Today">>, Triggered)
            /\ \A i, j \in 1..n : C25_Categories[i] = C25_Categories[j] => i = j
            /\ n >= 2
            /\ C25_Categories[n - 1] = "Competing Offers"
            /\ C25_Categories[n] = "Closing Today"

\* 181 days on the lot with an invoice of a cent, whose 15% rounds to $0: the
\* floor plan point is made, the curtailment point is not
C25_Witness ==
    /\ BriefDone
    /\ call.days_on_lot = 181
    /\ call.invoice_price = 1
    /\ call.asking_price = 1
    /\ call.rebates_available > 0
    /\ C25_Categories = <<"Floor Plan Costs", "Available Rebates",
                          "Competing Offers", "Closing Today">>


\* C26: the leverage tier of a talking point is fixed per category: any two
\* talking points of the same category, taken from any two briefs (whatever
\* their days_on_lot, prices or rebates), carry the same leverage value, and
\* every leverage value is one of low, medium, high.
C26_LeveragePerCategory ==
    BriefDone =>
        \A other \in BriefCalls :
            LET points == result.talking_points
                others == generate_negotiation_brief(
                              other.asking_price, other.invoice_price,
                              other.holdback, other.true_dealer_cost,
                              other.days_on_lot,
                              other.rebates_available).talking_points
            IN  /\ \A i \in DOMAIN points :
                      points[i].leverage \in {"low", "medium", "high"}
                /\ \A i \in DOMAIN points, j \in DOMAIN others :
                      points[i].category = others[j].category =>
                          points[i].leverage = others[j].leverage


\* C29: in every negotiation brief with true_dealer_cost > 0 and asking_price
\* >= true_dealer_cost, the offer targets are ordered aggressive <= reasonable
\* <= likely_settlement <= asking_price: the likely settlement lies between
\* the dealer's true cost and the asking price.
C29_TargetsOrdered ==
    BriefDone /\ call.true_dealer_cost > 0
              /\ call.asking_price >= call.true_dealer_cost =>
        /\ result.offer_targets.aggressive <= result.offer_targets.reasonable
        /\ result.offer_targets.reasonable <= result.offer_targets.likely_settlement
        /\ result.offer_targets.likely_settlement <= call.asking_price

-----------------------------------------------------------------------------
(* Claims about the financing detail, checked under Spec179.               *)

\* C27: for a qualifying Section 179 calculation the financing detail is
\* present if and only if loan_term_months > 0 and down_payment <
\* vehicle_price; when present, loan_amount = vehicle_price - down_payment
\* (never reduced by the tax savings) and monthly_tax_benefit =
\* total_tax_savings / 12; and with loan_interest_rate = 0 the payment is
\* straight-line, monthly_payment = loan_amount / loan_term_months with
\* total_interest = 0 and total_loan_cost = loan_amount.  Amounts to the cent.
C27_Financing ==
    Qualifies179 =>
        LET financing == result.financing
            loan == (call.vehicle_price - call.down_payment) * 100
        IN  /\ financing # NoneVal <=>
                  call.loan_term_months > 0 /\ call.down_payment < call.vehicle_price
            /\ financing # NoneVal =>
                  /\ financing.loan_amount = loan
                  /\ 12 * financing.monthly_tax_benefit - result.total_tax_savings
                        \in -6..6
                  /\ call.loan_interest_rate = 0 =>
                        /\ 2 * (call.loan_term_months * financing.monthly_payment
                                   - loan) \in -call.loan_term_months..call.loan_term_months
                        /\ financing.total_interest = 0
                        /\ financing.total_loan_cost = loan

\* $50,001 at 0% over 36 months with $10,000 down: $40,001 borrowed,
\* $1,111.14 a month, and tax savings of $11,220.22 left out of the loan
C27_Witness ==
    /\ Qualifies179
    /\ call.vehicle_price = 50001 /\ call.down_payment = 10000
    /\ call.loan_interest_rate = 0 /\ call.loan_term_months = 36
    /\ result.total_tax_savings = 1122022
    /\ result.financing.loan_amount = 4000100
    /\ result.financing.monthly_payment = 111114
    /\ result.financing.total_loan_cost = 4000100
    /\ result.financing.monthly_tax_benefit = 93502

-----------------------------------------------------------------------------
(* Claims about the circuit breaker, checked under SpecCircuit.            *)

\* the failures recorded since the last success recorded, or since the start
C28_FailuresSinceSuccess ==
    LET successes == {i \in DOMAIN outcomes : outcomes[i] = "success"}
        last == IF successes = {} THEN 0
                ELSE CHOOSE i \in successes : \A j \in successes : j <= i
    IN  Len(outcomes) - last

\* the circuit is open and its timeout has not passed
C28_Blocking ==
    /\ _circuit_opened_at # NoneInt
    /\ now - _circuit_opened_at < 300

-----------------------------------------------------------------------------
(* Claims about the subscription state, checked under SpecSubscription.    *)

\* C30: after any sequence of Stripe webhook events (checkout.session.completed,
\* customer.subscription.updated with any status, customer.subscription.deleted,
\* invoice.payment_failed) applied in any order to a user who starts as tier
\* free / status active, subscription_tier = "pro" implies that
\* subscription_status is "active" or "past_due", and an invoice.payment_failed
\* event alone never changes a user's tier.
C30_ProIsActive ==
    /\ [](\A c \in DOMAIN users :
             users[c].subscription_tier = "pro" =>
                 users[c].subscription_status \in {"active", "past_due"})
    /\ [][/\ Len(deliveries') = Len(deliveries) + 1
           /\ deliveries'[Len(deliveries')].event.type = "invoice.payment_failed"
           => \A c \in DOMAIN users :
                  users'[c].subscription_tier = users[c].subscription_tier]_vars

\* a deletion, a checkout and then a failed payment: the user is Pro and
\* past due
C30_Witness ==
    /\ Len(deliveries) = 3
    /\ deliveries[1].event.id = "evt_deleted"
    /\ deliveries[2].event.id = "evt_checkout"
    /\ deliveries[3].event.id = "evt_failed"
    /\ users["cus_1"].subscription_tier = "pro"
    /\ users["cus_1"].subscription_status = "past_due"

=============================================================================
